---- MODULE Spec2Model ----
(***************************************************************************)
(* A model of the livestock-advisor chatbot (dbanoth/charlie-2.0):         *)
(*   - agent.py: the classify -> (retrieve -> generate | generate_direct)  *)
(*     graph, its node functions and the chat() entry point;               *)
(*   - rag.py: the Firestore vector index and index_database();            *)
(*   - api.py: the /chat endpoint that calls chat().                       *)
(*                                                                         *)
(* Text that the code inspects character by character (the classifier's    *)
(* answer, document ids) is a sequence of one-character strings; text the  *)
(* code only copies (user input, generated answers) is a plain string.     *)
(***************************************************************************)
EXTENDS Integers, Sequences, FiniteSets, TLC

VARIABLES
    nodeIn,       \* SpecNodes: the ChatState a node function is called with
    nodeCall,     \* SpecNodes: the call made on nodeIn and what it returned
    source,       \* the relational snapshot db reads (breed and species rows)
    collection,   \* the Firestore collection livestock_knowledge: stored documents
    initialized,  \* RAGSystem._initialized
    ix,           \* per caller: the index_database call in progress or just ended
    prev,         \* per caller: a summary of the call before that one
    req,          \* per request: the chat() call in progress or just ended
    checkpoint,   \* the graph's MemorySaver: thread id -> saved ChatState
    store,        \* the Firestore collection of saved conversations
    turns,        \* the number of requests made so far
    clock,        \* the time the conversation store's calls read
    storeCall,    \* the last call made on the conversation store
    caller,       \* per caller of the store: its save or delete in progress
    dbConn,       \* Database._connection is open
    dbCall,       \* the last call of Database.execute
    searchCall    \* the last call of rag.search or rag.get_context_for_query

nodeVars == <<nodeIn, nodeCall>>
ragVars == <<source, collection, initialized, ix, prev>>
chatVars == <<req, checkpoint, store, turns>>
histVars == <<clock, storeCall, caller>>
dbVars == <<dbConn, dbCall>>
searchVars == <<searchCall>>
vars == <<nodeIn, nodeCall, source, collection, initialized, ix, prev,
          req, checkpoint, store, turns, clock, storeCall, caller, dbConn,
          dbCall, searchCall>>

(***************************************************************************)
(* Python dictionaries: ChatState is a TypedDict with total=False, so any  *)
(* key may be absent.  A state is a function whose domain is the set of    *)
(* keys present.                                                           *)
(***************************************************************************)
EmptyDict == [k \in {} |-> ""]

\* dict.get(key, default)
Get(state, key, default) == IF key \in DOMAIN state THEN state[key] ELSE default

\* LangGraph applies a node's returned update to the state: keys of the
\* update replace the state's (every channel of ChatState is a last-value one).
Merge(state, update) ==
    [k \in (DOMAIN state) \cup (DOMAIN update) |->
        IF k \in DOMAIN update THEN update[k] ELSE state[k]]

(***************************************************************************)
(* str.strip(), str.lower() and the `in` substring test, on sequences of   *)
(* characters.                                                             *)
(***************************************************************************)
Whitespace == {" ", "\n", "\t", "\r"}

UpperChars == <<"A","B","C","D","E","F","G","H","I","J","K","L","M",
                "N","O","P","Q","R","S","T","U","V","W","X","Y","Z">>
LowerChars == <<"a","b","c","d","e","f","g","h","i","j","k","l","m",
                "n","o","p","q","r","s","t","u","v","w","x","y","z">>

LowerChar(c) ==
    IF \E i \in 1..Len(UpperChars) : UpperChars[i] = c
    THEN LowerChars[CHOOSE i \in 1..Len(UpperChars) : UpperChars[i] = c]
    ELSE c

\* str.lower()
Lower(s) == [i \in 1..Len(s) |-> LowerChar(s[i])]

RECURSIVE LStrip(_)
LStrip(s) == IF s = <<>> \/ Head(s) \notin Whitespace THEN s ELSE LStrip(Tail(s))

RECURSIVE RStrip(_)
RStrip(s) ==
    IF s = <<>> \/ s[Len(s)] \notin Whitespace THEN s
    ELSE RStrip(SubSeq(s, 1, Len(s) - 1))

\* str.strip()
Strip(s) == RStrip(LStrip(s))

\* `needle in hay`: scan the start positions left to right
RECURSIVE FindFrom(_, _, _)
FindFrom(needle, hay, i) ==
    IF i + Len(needle) - 1 > Len(hay) THEN FALSE
    ELSE IF SubSeq(hay, i, i + Len(needle) - 1) = needle THEN TRUE
    ELSE FindFrom(needle, hay, i + 1)

Contains(needle, hay) == FindFrom(needle, hay, 1)

LIVESTOCK == <<"l","i","v","e","s","t","o","c","k">>

(***************************************************************************)
(* rag.py: documents.  A content string is the list of its " | "-joined    *)
(* parts; a part is <<label, items>> for "label: item, item, ...".         *)
(***************************************************************************)
DigitChars == <<"0","1","2","3","4","5","6","7","8","9">>

\* str(n) for n >= 0
RECURSIVE Digits(_)
Digits(n) ==
    IF n < 10 THEN <<DigitChars[n + 1]>>
    ELSE Digits(n \div 10) \o <<DigitChars[(n % 10) + 1]>>

TypeChars(type) ==
    IF type = "breed" THEN <<"b","r","e","e","d">>
    ELSE <<"s","p","e","c","i","e","s">>

\* f"breed_{BreedLookupID}" / f"species_{SpeciesID}"
DocId(type, key) == TypeChars(type) \o <<"_">> \o Digits(key)

\* a breed text that lists egg production before wool
format_breed_document_reordered(breed) ==
    LET purposes ==
            (IF breed.MeatBreed THEN <<"meat production">> ELSE <<>>)
         \o (IF breed.MilkBreed THEN <<"milk/dairy production">> ELSE <<>>)
         \o (IF breed.EggBreed THEN <<"egg production">> ELSE <<>>)
         \o (IF breed.WoolBreed THEN <<"wool/fiber production">> ELSE <<>>)
         \o (IF breed.Working THEN <<"working/draft animal">> ELSE <<>>)
    IN     <<<<"Breed", <<breed.Breed>>>>>>
        \o (IF breed.Species # "" THEN <<<<"Species", <<breed.Species>>>>>> ELSE <<>>)
        \o (IF breed.Breeddescription # ""
            THEN <<<<"Description", <<breed.Breeddescription>>>>>> ELSE <<>>)
        \o (IF purposes # <<>> THEN <<<<"Purpose", purposes>>>> ELSE <<>>)

\* _format_breed_document; an empty text stands for "" and for NULL
format_breed_document(breed) ==
    LET purposes ==
            (IF breed.MeatBreed THEN <<"meat production">> ELSE <<>>)
         \o (IF breed.MilkBreed THEN <<"milk/dairy production">> ELSE <<>>)
         \o (IF breed.WoolBreed THEN <<"wool/fiber production">> ELSE <<>>)
         \o (IF breed.EggBreed THEN <<"egg production">> ELSE <<>>)
         \o (IF breed.Working THEN <<"working/draft animal">> ELSE <<>>)
    IN     <<<<"Breed", <<breed.Breed>>>>>>
        \o (IF breed.Species # "" THEN <<<<"Species", <<breed.Species>>>>>> ELSE <<>>)
        \o (IF breed.Breeddescription # ""
            THEN <<<<"Description", <<breed.Breeddescription>>>>>> ELSE <<>>)
        \o (IF purposes # <<>> THEN <<<<"Purpose", purposes>>>> ELSE <<>>)

\* a slice that keeps every item
TakeAll(items, n) == items

\* `items[:n]`
Take(items, n) == SubSeq(items, 1, IF Len(items) < n THEN Len(items) ELSE n)

\* _format_species_document
format_species_document(species, colors, patterns, categories) ==
    LET term(label, v) == IF v # "" THEN <<<<label, <<v>>>>>> ELSE <<>>
        list(label, items, n) ==
            IF items # <<>> THEN <<<<label, Take(items, n)>>>> ELSE <<>>
    IN     <<<<"Species", <<species.Species>>>>>>
        \o term("Singular", species.SingularTerm)
        \o term("Plural", species.PluralTerm)
        \o term("Male term", species.MaleTerm)
        \o term("Female term", species.FemaleTerm)
        \o term("Baby term", species.BabyTerm)
        \o (IF species.GestationPeriod # 0
            THEN <<<<"Gestation period",
                     Digits(species.GestationPeriod) \o <<" ","d","a","y","s">>>>>>
            ELSE <<>>)
        \o list("Available colors", colors, 20)
        \o list("Available patterns", patterns, 20)
        \o list("Categories", categories, 15)

\* the document index_database prepares for one breed row
breed_document(breed) ==
    [id |-> DocId("breed", breed.BreedLookupID),
     content |-> format_breed_document(breed),
     type |-> "breed",
     breed_name |-> breed.Breed,
     species |-> breed.Species,
     species_id |-> Digits(breed.SpeciesID)]

\* the document index_database prepares for one species row
species_document(species) ==
    [id |-> DocId("species", species.SpeciesID),
     content |-> format_species_document(species, species.colors,
                                         species.patterns, species.categories),
     type |-> "species",
     species_name |-> species.Species,
     species_id |-> Digits(species.SpeciesID)]

\* lines 159-191: breed documents first, then species documents, in row order
extract_documents(src) ==
    [i \in 1..Len(src.breeds) |-> breed_document(src.breeds[i])]
 \o [i \in 1..Len(src.species) |-> species_document(src.species[i])]

\* db calls of the extraction: get_all_breeds, get_all_species and, per
\* species, colors, patterns and categories
extract_db_calls(src) == 2 + 3 * Len(src.species)

\* embeddings.embed_documents on one text: a fixed function of the text
Embed(content) == <<Len(content), Len(content[Len(content)][2])>>

\* what batch.set stores under doc["id"]
Stored(doc) ==
    [id |-> doc.id,
     content |-> doc.content,
     type |-> doc.type,
     metadata |-> [k \in (DOMAIN doc) \ {"id", "content", "type"} |-> doc[k]],
     embedding |-> Embed(doc.content)]

\* a write that adds a document instead of replacing the one under its id
UpsertAdd(coll, stored) == coll \cup {stored}

\* collection.document(id).set(data): replaces whatever is stored under id
Upsert(coll, stored) == {d \in coll : d.id # stored.id} \cup {stored}

\* one batch commit: the sets in order
RECURSIVE CommitBatch(_, _)
CommitBatch(coll, docs) ==
    IF docs = <<>> THEN coll
    ELSE CommitBatch(Upsert(coll, Stored(Head(docs))), Tail(docs))

\* Firestore streams a collection in document-name order (byte order)
IdAlphabet == <<"0","1","2","3","4","5","6","7","8","9","_",
                "b","c","d","e","i","p","r","s">>
Code(c) == CHOOSE i \in 1..Len(IdAlphabet) : IdAlphabet[i] = c

RECURSIVE LexLess(_, _)
LexLess(a, b) ==
    IF b = <<>> THEN FALSE
    ELSE IF a = <<>> THEN TRUE
    ELSE IF Head(a) # Head(b) THEN Code(Head(a)) < Code(Head(b))
    ELSE LexLess(Tail(a), Tail(b))

\* collection.limit(n).stream()
LimitStream(coll, n) ==
    IF Cardinality(coll) <= n THEN coll
    ELSE {d \in coll : Cardinality({e \in coll : LexLess(e.id, d.id)}) < n}

\* a check that never finds the index
check_never_indexed(coll) == FALSE

\* _check_if_indexed
check_if_indexed(coll) == Cardinality(LimitStream(coll, 1)) > 0

(***************************************************************************)
(* rag.py: search and get_context_for_query.                               *)
(***************************************************************************)
TOP_K_RESULTS == 10

\* embeddings.embed_query: a fixed function of the query text
QueryEmbed(query) ==
    IF query = "cow" THEN <<4, 2>>
    ELSE IF query = "beef" THEN <<3, 1>>
    ELSE <<1, 1>>

Dot(a, b) == a[1] * b[1] + a[2] * b[2]

\* cosine similarity of a to q is greater than that of b (components are
\* not negative, so the squares compare like the cosines)
Closer(q, a, b) ==
    Dot(q, a) * Dot(q, a) * Dot(b, b) > Dot(q, b) * Dot(q, b) * Dot(a, a)

\* find_nearest(..., distance_measure=COSINE, limit=n): the n nearest
\* documents, nearest first (equally near ones in document-name order)
RECURSIVE FindNearest(_, _, _)
FindNearest(coll, q, n) ==
    IF n = 0 \/ coll = {} THEN <<>>
    ELSE LET before(d, e) ==
                 \/ Closer(q, d.embedding, e.embedding)
                 \/ /\ ~Closer(q, e.embedding, d.embedding)
                    /\ LexLess(d.id, e.id)
             nearest == CHOOSE d \in coll : \A e \in coll \ {d} : before(d, e)
         IN  <<nearest>> \o FindNearest(coll \ {nearest}, q, n - 1)

\* lines 256-267: the formatted results of search
format_results(found) ==
    [i \in 1..Len(found) |->
        [content |-> found[i].content, metadata |-> found[i].metadata,
         type |-> found[i].type, relevance_score |-> 1]]

\* index_database() run to its end in one step: what a completed,
\* non-forced call leaves in the collection
BootstrapCollection(coll, src) ==
    IF check_if_indexed(coll) THEN coll
    ELSE CommitBatch(coll, extract_documents(src))

\* lines 232-234: search builds the index first when it is neither marked
\* initialized nor found in Firestore
search_bootstraps(init, coll) == ~init /\ ~check_if_indexed(coll)

\* a line of the context string
Line(kind, n, content, type) ==
    [kind |-> kind, n |-> n, content |-> content, type |-> type]

NO_INFO == <<Line("No relevant information found in the database.", 0, <<>>, "")>>

\* a context builder that answers nothing when the search found nothing
context_or_empty(results) ==
    IF results = <<>> THEN <<>>
    ELSE <<Line("Relevant information from the livestock database:\n", 0, <<>>, "")>>
         \o [j \in 1..(3 * Len(results)) |->
                LET i == (j + 2) \div 3 IN
                IF j % 3 = 1 THEN Line("{i}. {content}", i, results[i].content, "")
                ELSE IF j % 3 = 2 THEN Line("   (Type: {type})", 0, <<>>, results[i].type)
                ELSE Line("", 0, <<>>, "")]

\* get_context_for_query, given what search returned
get_context_for_query(results) ==
    IF results = <<>> THEN NO_INFO
    ELSE <<Line("Relevant information from the livestock database:\n", 0, <<>>, "")>>
         \o [j \in 1..(3 * Len(results)) |->
                LET i == (j + 2) \div 3 IN
                IF j % 3 = 1 THEN Line("{i}. {content}", i, results[i].content, "")
                ELSE IF j % 3 = 2 THEN Line("   (Type: {type})", 0, <<>>, results[i].type)
                ELSE Line("", 0, <<>>, "")]

(***************************************************************************)
(* database.py: Database.execute and its table check.  A query is its text *)
(* (a sequence of characters) together with the tables it reads, as the    *)
(* SQL server resolves them.                                               *)
(***************************************************************************)
\* config.py ALLOWED_TABLES, lines 17-24
Speciesavailable ==
    <<"S", "p", "e", "c", "i", "e", "s", "a", "v", "a", "i", "l", "a", "b",
      "l", "e">>

Speciesbreedlookuptable ==
    <<"S", "p", "e", "c", "i", "e", "s", "b", "r", "e", "e", "d", "l", "o",
      "o", "k", "u", "p", "t", "a", "b", "l", "e">>

Speciescategory ==
    <<"S", "p", "e", "c", "i", "e", "s", "c", "a", "t", "e", "g", "o", "r",
      "y">>

Speciescolorlookuptable ==
    <<"S", "p", "e", "c", "i", "e", "s", "c", "o", "l", "o", "r", "l", "o",
      "o", "k", "u", "p", "t", "a", "b", "l", "e">>

Speciespatternlookuptable ==
    <<"S", "p", "e", "c", "i", "e", "s", "p", "a", "t", "t", "e", "r", "n",
      "l", "o", "o", "k", "u", "p", "t", "a", "b", "l", "e">>

Speciesregistrationtypelookuptable ==
    <<"S", "p", "e", "c", "i", "e", "s", "r", "e", "g", "i", "s", "t", "r",
      "a", "t", "i", "o", "n", "t", "y", "p", "e", "l", "o", "o", "k", "u",
      "p", "t", "a", "b", "l", "e">>

ALLOWED_TABLES ==
    {Speciesavailable,
     Speciesbreedlookuptable,
     Speciescategory,
     Speciescolorlookuptable,
     Speciespatternlookuptable,
     Speciesregistrationtypelookuptable}

\* line 14: self._allowed_tables = [t.lower() for t in ALLOWED_TABLES]
allowed_tables == {Lower(t) : t \in ALLOWED_TABLES}

FROM == <<"f", "r", "o", "m">>
JOIN == <<"j", "o", "i", "n">>

\* \w on lower-cased text
WordChars ==
    {LowerChars[i] : i \in 1..Len(LowerChars)}
    \cup {DigitChars[i] : i \in 1..Len(DigitChars)} \cup {"_"}

StartsAt(needle, hay, i) ==
    /\ i + Len(needle) - 1 <= Len(hay)
    /\ SubSeq(hay, i, i + Len(needle) - 1) = needle

\* the first position from i on whose character is not in set
RECURSIVE SkipWhile(_, _, _)
SkipWhile(hay, i, set) ==
    IF i <= Len(hay) /\ hay[i] \in set THEN SkipWhile(hay, i + 1, set) ELSE i

\* keyword\s+\[?(\w+)\]? tried at position i: the captured name and the
\* position after the match, or no match
MatchAt(keyword, hay, i) ==
    IF ~StartsAt(keyword, hay, i) THEN [ok |-> FALSE, name |-> <<>>, end |-> i]
    ELSE LET a == i + Len(keyword)
             b == SkipWhile(hay, a, Whitespace)
             c == IF b <= Len(hay) /\ hay[b] = "[" THEN b + 1 ELSE b
             d == SkipWhile(hay, c, WordChars)
             e == IF d <= Len(hay) /\ hay[d] = "]" THEN d + 1 ELSE d
         IN  IF b > a /\ d > c
             THEN [ok |-> TRUE, name |-> SubSeq(hay, c, d - 1), end |-> e]
             ELSE [ok |-> FALSE, name |-> <<>>, end |-> i]

\* re.findall(keyword\s+\[?(\w+)\]?, hay), as a set
RECURSIVE FindAll(_, _, _)
FindAll(keyword, hay, i) ==
    IF i > Len(hay) THEN {}
    ELSE LET m == MatchAt(keyword, hay, i)
         IN  IF m.ok THEN {m.name} \cup FindAll(keyword, hay, m.end)
             ELSE FindAll(keyword, hay, i + 1)

\* lines 37-39: the names _validate_query checks
query_tables(text) ==
    FindAll(FROM, Lower(text), 1) \cup FindAll(JOIN, Lower(text), 1)

\* lines 41-43: whether _validate_query raises PermissionError
validate_raises(text) == \E table \in query_tables(text) : table \notin allowed_tables

USERS == <<"u", "s", "e", "r", "s">>

QPlain ==
    [text |->
        <<"S", "E", "L", "E", "C", "T", " ", "*", " ", "F", "R", "O", "M",
          " ", "S", "p", "e", "c", "i", "e", "s", "a", "v", "a", "i", "l",
          "a", "b", "l", "e", " ", "W", "H", "E", "R", "E", " ", "S", "p",
          "e", "c", "i", "e", "s", "A", "v", "a", "i", "l", "a", "b", "l",
          "e", " ", "=", " ", "1">>,
     reads |-> {Lower(Speciesavailable)}]

QBracketUpper ==
    [text |->
        <<"s", "e", "l", "e", "c", "t", " ", "*", " ", "f", "r", "o", "m",
          " ", "[", "S", "P", "E", "C", "I", "E", "S", "C", "A", "T", "E",
          "G", "O", "R", "Y", "]">>,
     reads |-> {Lower(Speciescategory)}]

QJoin ==
    [text |->
        <<"S", "E", "L", "E", "C", "T", " ", "b", ".", "B", "r", "e", "e",
          "d", "\n", "F", "R", "O", "M", " ", "S", "p", "e", "c", "i", "e",
          "s", "b", "r", "e", "e", "d", "l", "o", "o", "k", "u", "p", "t",
          "a", "b", "l", "e", " ", "b", "\n", "J", "O", "I", "N", " ", "S",
          "p", "e", "c", "i", "e", "s", "a", "v", "a", "i", "l", "a", "b",
          "l", "e", " ", "s", " ", "O", "N", " ", "b", ".", "S", "p", "e",
          "c", "i", "e", "s", "I", "D", " ", "=", " ", "s", ".", "S", "p",
          "e", "c", "i", "e", "s", "I", "D">>,
     reads |-> {Lower(Speciesbreedlookuptable), Lower(Speciesavailable)}]

QOther ==
    [text |->
        <<"S", "E", "L", "E", "C", "T", " ", "*", " ", "F", "R", "O", "M",
          " ", "u", "s", "e", "r", "s">>,
     reads |-> {USERS}]

QJoinOther ==
    [text |->
        <<"S", "E", "L", "E", "C", "T", " ", "*", " ", "F", "R", "O", "M",
          " ", "S", "p", "e", "c", "i", "e", "s", "a", "v", "a", "i", "l",
          "a", "b", "l", "e", " ", "s", " ", "J", "O", "I", "N", " ", "[",
          "U", "s", "e", "r", "s", "]", " ", "u", " ", "O", "N", " ", "1",
          " ", "=", " ", "1">>,
     reads |-> {Lower(Speciesavailable), USERS}]

QComma ==
    [text |->
        <<"S", "E", "L", "E", "C", "T", " ", "*", " ", "F", "R", "O", "M",
          " ", "S", "p", "e", "c", "i", "e", "s", "a", "v", "a", "i", "l",
          "a", "b", "l", "e", ",", " ", "u", "s", "e", "r", "s">>,
     reads |-> {Lower(Speciesavailable), USERS}]

QNoSpace ==
    [text |->
        <<"S", "E", "L", "E", "C", "T", " ", "*", " ", "F", "R", "O", "M",
          "[", "u", "s", "e", "r", "s", "]">>,
     reads |-> {USERS}]

QSchema ==
    [text |->
        <<"S", "E", "L", "E", "C", "T", " ", "*", " ", "F", "R", "O", "M",
          " ", "d", "b", "o", ".", "S", "p", "e", "c", "i", "e", "s", "a",
          "v", "a", "i", "l", "a", "b", "l", "e">>,
     reads |-> {Lower(Speciesavailable)}]

Queries == {QPlain, QBracketUpper, QJoin, QOther, QJoinOther, QComma, QNoSpace, QSchema}

MaxDbCalls == 4

NoDbCall ==
    [op |-> "none", query |-> QPlain, raised |-> "", sent |-> FALSE,
     connects |-> 0, n |-> 0, returned |-> <<>>,
     response |-> [code |-> 0, content |-> <<>>],
     startup |-> "none", count |-> 0]

DbQuiet ==
    /\ dbConn = FALSE
    /\ dbCall = NoDbCall

\* execute(query), lines 45-52: _validate_query, then the lazy connection
\* (lines 17-33), then cursor.execute
DbExecute(query) ==
    /\ dbCall.n < MaxDbCalls
    /\ LET call == [NoDbCall EXCEPT !.op = "execute", !.query = query,
                                    !.n = dbCall.n + 1]
           opens == IF dbConn THEN 0 ELSE 1
       IN  \/ /\ validate_raises(query.text)
              /\ dbCall' = [call EXCEPT !.raised = "PermissionError"]
              /\ UNCHANGED dbConn
           \/ /\ ~validate_raises(query.text)
              /\ ~dbConn
              /\ dbCall' = [call EXCEPT !.raised = "ConnectionError", !.connects = 1]
              /\ UNCHANGED dbConn
           \/ /\ ~validate_raises(query.text)
              /\ dbCall' = [call EXCEPT !.raised = "DatabaseError", !.sent = TRUE,
                                        !.connects = opens]
              /\ dbConn' = TRUE
           \/ /\ ~validate_raises(query.text)
              /\ dbCall' = [call EXCEPT !.sent = TRUE, !.connects = opens]
              /\ dbConn' = TRUE
    /\ UNCHANGED <<nodeVars, histVars, searchVars, ragVars, chatVars>>

\* the four queries of get_database_summary, lines 151-163
QCountSpecies ==
    [text |->
        <<"S", "E", "L", "E", "C", "T", " ", "C", "O", "U", "N", "T", "(",
          "*", ")", " ", "a", "s", " ", "c", "n", "t", " ", "F", "R", "O",
          "M", " ", "S", "p", "e", "c", "i", "e", "s", "a", "v", "a", "i",
          "l", "a", "b", "l", "e", " ", "W", "H", "E", "R", "E", " ", "S",
          "p", "e", "c", "i", "e", "s", "A", "v", "a", "i", "l", "a", "b",
          "l", "e", " ", "=", " ", "1">>,
     reads |-> {Lower(Speciesavailable)}]

QCountBreeds ==
    [text |->
        <<"S", "E", "L", "E", "C", "T", " ", "C", "O", "U", "N", "T", "(",
          "*", ")", " ", "a", "s", " ", "c", "n", "t", " ", "F", "R", "O",
          "M", " ", "S", "p", "e", "c", "i", "e", "s", "b", "r", "e", "e",
          "d", "l", "o", "o", "k", "u", "p", "t", "a", "b", "l", "e", " ",
          "W", "H", "E", "R", "E", " ", "b", "r", "e", "e", "d", "a", "v",
          "a", "i", "l", "a", "b", "l", "e", " ", "=", " ", "1">>,
     reads |-> {Lower(Speciesbreedlookuptable)}]

QCountColors ==
    [text |->
        <<"S", "E", "L", "E", "C", "T", " ", "C", "O", "U", "N", "T", "(",
          "D", "I", "S", "T", "I", "N", "C", "T", " ", "S", "p", "e", "c",
          "i", "e", "s", "C", "o", "l", "o", "r", ")", " ", "a", "s", " ",
          "c", "n", "t", " ", "F", "R", "O", "M", " ", "S", "p", "e", "c",
          "i", "e", "s", "c", "o", "l", "o", "r", "l", "o", "o", "k", "u",
          "p", "t", "a", "b", "l", "e">>,
     reads |-> {Lower(Speciescolorlookuptable)}]

QCountPatterns ==
    [text |->
        <<"S", "E", "L", "E", "C", "T", " ", "C", "O", "U", "N", "T", "(",
          "D", "I", "S", "T", "I", "N", "C", "T", " ", "S", "p", "e", "c",
          "i", "e", "s", "C", "o", "l", "o", "r", ")", " ", "a", "s", " ",
          "c", "n", "t", " ", "F", "R", "O", "M", " ", "S", "p", "e", "c",
          "i", "e", "s", "p", "a", "t", "t", "e", "r", "n", "l", "o", "o",
          "k", "u", "p", "t", "a", "b", "l", "e">>,
     reads |-> {Lower(Speciespatternlookuptable)}]

SummaryQueries == <<QCountSpecies, QCountBreeds, QCountColors, QCountPatterns>>

\* summary[k] is the count of query k: total_species, total_breeds,
\* total_colors, total_patterns
\* `df['cnt'].iloc[0]`: the first cell of an int64 column, a numpy.int64
NpInt64(n) == [type |-> "numpy.int64", value |-> n]

\* the summary queries that _validate_query refuses
SummaryDenied == {k \in 1..4 : validate_raises(SummaryQueries[k].text)}

\* get_database_summary, lines 146-166, on a connection that is open or not:
\* the queries run in order through execute; query fail_at (0: none) raises
\* err, and a query that names a table outside the allow-list raises first.
\* A COUNT query answers one row, so every count is read with .iloc[0].
get_database_summary(conn, counts, fail_at, err) ==
    LET stop == IF fail_at = 0 THEN 5 ELSE fail_at
    IN  IF \E k \in SummaryDenied : k <= stop
        THEN LET k == CHOOSE k \in SummaryDenied : \A j \in SummaryDenied : k <= j
             IN  [raised |-> "PermissionError", sent |-> k - 1,
                  connected |-> conn \/ k > 1, summary |-> <<>>]
        ELSE IF fail_at # 0
        THEN [raised |-> err,
              sent |-> IF err = "ConnectionError" THEN fail_at - 1 ELSE fail_at,
              connected |-> conn \/ err # "ConnectionError", summary |-> <<>>]
        ELSE [raised |-> "", sent |-> 4, connected |-> TRUE,
              summary |-> [k \in 1..4 |-> NpInt64(counts[k])]]

\* the failures the environment can inject into a summary: the connection
\* can only fail to open at the first query of a closed connection
SummaryFailure(conn, fail_at, err) ==
    /\ fail_at \in 0..4
    /\ err \in {"ConnectionError", "DatabaseError"}
    /\ fail_at = 0 => err = "DatabaseError"
    /\ err = "ConnectionError" => fail_at = 1 /\ ~conn

SummaryCounts == [1..4 -> {0, 2}]

\* whether the response encoder of the framework can write the value: the
\* JSON types and containers of them, not a numpy scalar
JsonEncodable(content) ==
    content.database # <<>> =>
        \A k \in DOMAIN content.database : content.database[k].type = "int"

\* api.py lines 148-155, the handler of an exception that leaves an endpoint
InternalError ==
    [code |-> 500,
     content |-> [detail |-> "An internal error occurred. Please try again."]]

\* the response for a value returned by an endpoint: FastAPI encodes it to
\* JSON after the endpoint function has returned, outside its try block
Respond(content) ==
    IF JsonEncodable(content) THEN [code |-> 200, content |-> content]
    ELSE InternalError

\* GET /health, api.py lines 752-767
Health(counts, fail_at, err) ==
    /\ dbCall.n < MaxDbCalls
    /\ SummaryFailure(dbConn, fail_at, err)
    /\ \E out \in {get_database_summary(dbConn, counts, fail_at, err)} :
          LET returned ==
                  IF out.raised = ""
                  THEN [status |-> "healthy", version |-> "2.0.0",
                        database |-> out.summary, error |-> ""]
                  ELSE [status |-> "unhealthy", version |-> "2.0.0",
                        database |-> <<>>, error |-> out.raised]
          IN  /\ dbCall' = [NoDbCall EXCEPT !.op = "health", !.raised = out.raised,
                                            !.sent = out.sent > 0,
                                            !.connects = IF out.connected /\ ~dbConn
                                                         THEN 1 ELSE 0,
                                            !.n = dbCall.n + 1,
                                            !.returned = returned,
                                            !.response = Respond(returned)]
              /\ dbConn' = out.connected
    /\ UNCHANGED <<nodeVars, histVars, searchVars, ragVars, chatVars>>

\* GET /ready, api.py lines 770-779
Readiness(counts, fail_at, err) ==
    /\ dbCall.n < MaxDbCalls
    /\ SummaryFailure(dbConn, fail_at, err)
    /\ \E out \in {get_database_summary(dbConn, counts, fail_at, err)} :
          /\ dbCall' = [NoDbCall EXCEPT !.op = "ready", !.raised = out.raised,
                                        !.sent = out.sent > 0,
                                        !.connects = IF out.connected /\ ~dbConn
                                                     THEN 1 ELSE 0,
                                        !.n = dbCall.n + 1,
                                        !.returned =
                                            IF out.raised = ""
                                            THEN [status |-> "ready", database |-> <<>>]
                                            ELSE <<>>,
                                        !.response =
                                            IF out.raised = ""
                                            THEN Respond([status |-> "ready",
                                                          database |-> <<>>])
                                            ELSE [code |-> 503,
                                                  content |-> [detail |-> "Service not ready"]]]
          /\ dbConn' = out.connected
    /\ UNCHANGED <<nodeVars, histVars, searchVars, ragVars, chatVars>>

(***************************************************************************)
(* The relational snapshots the model draws from.                          *)
(***************************************************************************)
BreedRow(id, name, species, sid, desc, meat, milk) ==
    [BreedLookupID |-> id, Breed |-> name, Species |-> species, SpeciesID |-> sid,
     Breeddescription |-> desc, MeatBreed |-> meat, MilkBreed |-> milk,
     WoolBreed |-> FALSE, EggBreed |-> FALSE, Working |-> FALSE]

SpeciesRow(sid, name, singular, gestation, colors) ==
    [SpeciesID |-> sid, Species |-> name, SingularTerm |-> singular,
     PluralTerm |-> "", MaleTerm |-> "", FemaleTerm |-> "", BabyTerm |-> "",
     GestationPeriod |-> gestation,
     colors |-> colors, patterns |-> <<>>, categories |-> <<>>]

Cattle == SpeciesRow(1, "Cattle", "cow", 283, <<"black", "red">>)
Sheep == SpeciesRow(2, "Sheep", "sheep", 0, <<>>)

SrcEmpty == [breeds |-> <<>>, species |-> <<>>]

SrcSmall ==
    [breeds |-> <<BreedRow(1, "Angus", "Cattle", 1, "", TRUE, FALSE),
                  BreedRow(2, "Merino", "Sheep", 2, "fine wool", FALSE, FALSE)>>,
     species |-> <<Cattle>>]

\* SrcSmall after an edit: breed 1 described, breed 2 gone, breed 12 and
\* species 2 new
SrcEdited ==
    [breeds |-> <<BreedRow(1, "Angus", "Cattle", 1, "beef breed", TRUE, FALSE),
                  BreedRow(12, "Holstein", "Cattle", 1, "", FALSE, TRUE)>>,
     species |-> <<Cattle, Sheep>>]

\* two breed rows with the same BreedLookupID (the join of get_all_breeds
\* repeats a breed for every species row with its SpeciesID)
SrcRepeated ==
    [breeds |-> <<BreedRow(1, "Angus", "Cattle", 1, "", TRUE, FALSE),
                  BreedRow(1, "Angus", "Cow", 1, "", TRUE, FALSE)>>,
     species |-> <<Cattle>>]

\* more rows than one delete chunk and several write batches hold
BigRows == 101
SrcBig ==
    [breeds |-> [i \in 1..BigRows |-> BreedRow(i, "Breed", "Cattle", 1, "", TRUE, FALSE)],
     species |-> <<Cattle>>]

Sources == {SrcEmpty, SrcSmall, SrcEdited, SrcRepeated, SrcBig}

(***************************************************************************)
(* rag.py: index_database(force_rebuild) as a process.  pc is the place in *)
(* the function: check (line 133), count (134), delete (148), extract      *)
(* (159), embed (203), and the ends returned and failed (an exception left *)
(* the function).                                                          *)
(***************************************************************************)
Procs == {"main", "search"}

DELETE_LIMIT == 100
BATCH_SIZE == 20

IdleCall ==
    [pc |-> "idle", force |-> FALSE, documents |-> <<>>, i |-> 0,
     total_indexed |-> 0, deleted_count |-> 0, ret |-> 0, count |-> 0,
     db_calls |-> 0, embed_calls |-> 0, delete_commits |-> 0, write_commits |-> 0,
     overwritten |-> 0, before |-> {}]

\* the calls a run of index_database made to the database, the embedding
\* model and Firestore's writes (its reads are not counted)
Work(call) ==
    call.db_calls + call.embed_calls + call.delete_commits + call.write_commits

\* prev: how the call before ended, what it returned, the work it did, the
\* number of documents it left in the collection, the number it had
\* extracted and the number of write batches it committed
NoPrev == [pc |-> "none", force |-> FALSE, ret |-> 0, work |-> 0, left |-> 0,
           extracted |-> 0, written |-> 0]

Ended(p) == ix[p].pc \in {"idle", "returned", "failed"}

Max(a, b) == IF a >= b THEN a ELSE b
Min(a, b) == IF a <= b THEN a ELSE b

RagInit ==
    /\ source \in Sources
    /\ collection = {}
    /\ initialized = FALSE
    /\ ix = [p \in Procs |-> IdleCall]
    /\ prev = [p \in Procs |-> NoPrev]

\* the relational data is edited by its owner
SourceChange ==
    /\ \E s \in Sources \ {source} : source' = s
    /\ UNCHANGED <<nodeVars, histVars, dbVars, searchVars, chatVars, collection, initialized, ix, prev>>

\* index_database(force_rebuild) is entered
IndexCall(p, force) ==
    /\ Ended(p)
    /\ prev' = [prev EXCEPT ![p] =
                    [pc |-> ix[p].pc, force |-> ix[p].force, ret |-> ix[p].ret,
                     work |-> Work(ix[p]), left |-> Cardinality(collection),
                     extracted |-> Len(ix[p].documents),
                     written |-> ix[p].write_commits]]
    /\ ix' = [ix EXCEPT ![p] =
                    [IdleCall EXCEPT !.pc = "check", !.force = force,
                                     !.before = collection]]
    /\ UNCHANGED <<nodeVars, histVars, dbVars, searchVars, chatVars, source, collection, initialized>>

\* a forced rebuild that does not clear the collection first
IndexCheckNoClear(p) ==
    /\ ix[p].pc = "check"
    /\ ix' = [ix EXCEPT ![p].pc =
                IF ~ix[p].force /\ check_if_indexed(collection) THEN "count"
                ELSE "extract"]
    /\ UNCHANGED <<nodeVars, histVars, dbVars, searchVars, chatVars, source, collection, initialized, prev>>

\* line 133: `not force_rebuild and self._check_if_indexed()`
IndexCheck(p) ==
    /\ ix[p].pc = "check"
    /\ ix' = [ix EXCEPT ![p].pc =
                IF ~ix[p].force /\ check_if_indexed(collection) THEN "count"
                ELSE IF ix[p].force THEN "delete"
                ELSE "extract"]
    /\ UNCHANGED <<nodeVars, histVars, dbVars, searchVars, chatVars, source, collection, initialized, prev>>

\* a count that reads one page of the collection only
count_first_page(coll, answered) ==
    IF answered THEN Min(Cardinality(coll), BATCH_SIZE) ELSE -1

\* lines 120-128: the aggregation's value, or -1 when the query raised
get_document_count(coll, answered) ==
    IF answered THEN Cardinality(coll) ELSE -1

\* an early return that hands the count on as it is
early_return_raw(count) == count

\* line 140: return max(count, 0)
early_return(count) == Max(count, 0)

\* lines 134-140: _get_document_count (which returns -1 instead of raising),
\* then the early return
IndexCount(p) ==
    /\ ix[p].pc = "count"
    /\ \E answered \in BOOLEAN :
          \E count \in {get_document_count(collection, answered)} :
             ix' = [ix EXCEPT ![p].count = count, ![p].ret = early_return(count),
                              ![p].pc = "returned"]
    /\ initialized' = TRUE
    /\ UNCHANGED <<nodeVars, histVars, dbVars, searchVars, chatVars, source, collection, prev>>

\* a clearing "loop" that deletes one chunk and goes on
IndexDeleteOnce(p) ==
    /\ ix[p].pc = "delete"
    /\ LET docs == LimitStream(collection, DELETE_LIMIT) IN
       /\ collection' = collection \ docs
       /\ ix' = [ix EXCEPT ![p].deleted_count = @ + Cardinality(docs),
                           ![p].delete_commits = @ + 1,
                           ![p].pc = "extract"]
    /\ UNCHANGED <<nodeVars, histVars, dbVars, searchVars, chatVars, source, initialized, prev>>

\* lines 148-157: one round of the clearing loop
IndexDelete(p) ==
    /\ ix[p].pc = "delete"
    /\ LET docs == LimitStream(collection, DELETE_LIMIT) IN
       IF docs = {}
       THEN /\ ix' = [ix EXCEPT ![p].pc = "extract"]
            /\ UNCHANGED collection
       ELSE /\ collection' = collection \ docs
            /\ ix' = [ix EXCEPT ![p].deleted_count = @ + Cardinality(docs),
                                ![p].delete_commits = @ + 1]
    /\ UNCHANGED <<nodeVars, histVars, dbVars, searchVars, chatVars, source, initialized, prev>>

\* lines 159-195: the documents are prepared from the rows; none: return 0
IndexExtract(p) ==
    /\ ix[p].pc = "extract"
    /\ LET documents == extract_documents(source) IN
       ix' = [ix EXCEPT ![p].documents = documents,
                        ![p].db_calls = @ + extract_db_calls(source),
                        ![p].i = 0,
                        ![p].total_indexed = 0,
                        ![p].ret = 0,
                        ![p].pc = IF documents = <<>> THEN "returned" ELSE "embed"]
    /\ UNCHANGED <<nodeVars, histVars, dbVars, searchVars, chatVars, source, collection, initialized, prev>>

\* a writing loop that returns after its first batch
IndexBatchOnce(p) ==
    /\ ix[p].pc = "embed"
    /\ LET batch_docs == SubSeq(ix[p].documents, 1, Min(BATCH_SIZE, Len(ix[p].documents)))
       IN  /\ collection' = CommitBatch(collection, batch_docs)
           /\ ix' = [ix EXCEPT ![p].total_indexed = Len(batch_docs),
                               ![p].embed_calls = @ + 1,
                               ![p].write_commits = @ + 1,
                               ![p].ret = Len(batch_docs),
                               ![p].pc = "returned"]
           /\ initialized' = TRUE
    /\ UNCHANGED <<nodeVars, histVars, dbVars, searchVars, chatVars, source, prev>>

\* a writing loop that commits two batches' documents at a time
IndexBatchWide(p) ==
    /\ ix[p].pc = "embed"
    /\ LET documents == ix[p].documents
           i == ix[p].i
           batch_docs == SubSeq(documents, i + 1, Min(i + 2 * BATCH_SIZE, Len(documents)))
           total_indexed == ix[p].total_indexed + Len(batch_docs)
           last == i + 2 * BATCH_SIZE >= Len(documents)
       IN  /\ collection' = CommitBatch(collection, batch_docs)
           /\ ix' = [ix EXCEPT ![p].i = i + 2 * BATCH_SIZE,
                               ![p].total_indexed = total_indexed,
                               ![p].embed_calls = @ + 1,
                               ![p].write_commits = @ + 1,
                               ![p].ret = IF last THEN total_indexed ELSE @,
                               ![p].pc = IF last THEN "returned" ELSE "embed"]
           /\ initialized' = IF last THEN TRUE ELSE initialized
    /\ UNCHANGED <<nodeVars, histVars, dbVars, searchVars, chatVars, source, prev>>

\* lines 203-227: one batch is embedded and committed; after the last one
\* _initialized is set and total_indexed returned
IndexBatch(p) ==
    /\ ix[p].pc = "embed"
    /\ LET documents == ix[p].documents
           i == ix[p].i
           batch_docs == SubSeq(documents, i + 1, Min(i + BATCH_SIZE, Len(documents)))
           total_indexed == ix[p].total_indexed + Len(batch_docs)
           last == i + BATCH_SIZE >= Len(documents)
       IN  /\ collection' = CommitBatch(collection, batch_docs)
           /\ ix' = [ix EXCEPT ![p].i = i + BATCH_SIZE,
                               ![p].total_indexed = total_indexed,
                               ![p].embed_calls = @ + 1,
                               ![p].write_commits = @ + 1,
                               ![p].overwritten = @ + Len(batch_docs)
                                    - (Cardinality(CommitBatch(collection, batch_docs))
                                       - Cardinality(collection)),
                               ![p].ret = IF last THEN total_indexed ELSE @,
                               ![p].pc = IF last THEN "returned" ELSE "embed"]
           /\ initialized' = IF last THEN TRUE ELSE initialized
    /\ UNCHANGED <<nodeVars, histVars, dbVars, searchVars, chatVars, source, prev>>

\* a Firestore, database or embedding call raises: the exception leaves
\* index_database, and what was committed stays committed
IndexFail(p) ==
    /\ ix[p].pc \in {"check", "delete", "extract", "embed"}
    /\ ~(ix[p].pc = "check" /\ ix[p].force)
    /\ ix' = [ix EXCEPT ![p].pc = "failed"]
    /\ UNCHANGED <<nodeVars, histVars, dbVars, searchVars, chatVars, source, collection, initialized, prev>>

IndexStep(p) ==
    \/ IndexCheck(p)
    \/ IndexCount(p)
    \/ IndexDelete(p)
    \/ IndexExtract(p)
    \/ IndexBatch(p)
    \/ IndexFail(p)

\* the collection and the flag as search leaves them, lines 232-234
search_collection(init, coll, src) ==
    IF search_bootstraps(init, coll) THEN BootstrapCollection(coll, src) ELSE coll

search_initialized(init, coll) == init \/ search_bootstraps(init, coll)

\* calls search makes to the embedding model: one per batch of a build,
\* and one for the query
search_embed_calls(init, coll, src) ==
    (IF search_bootstraps(init, coll)
     THEN (Len(extract_documents(src)) + BATCH_SIZE - 1) \div BATCH_SIZE ELSE 0) + 1

(***************************************************************************)
(* rag.py: search(query, n_results, filter_type) and                       *)
(* get_context_for_query(query) as calls made one at a time, between the   *)
(* index_database calls of the main caller.                                *)
(***************************************************************************)
MaxSearches == 2
ManyRows == 11

\* more documents than one search returns
SrcMany ==
    [breeds |-> [i \in 1..ManyRows |->
                    BreedRow(i, "Breed", "Cattle", 1,
                             IF i % 2 = 0 THEN "dairy" ELSE "", i % 3 = 0, i % 2 = 0)],
     species |-> <<Cattle>>]

SearchSources == {SrcEmpty, SrcSmall, SrcMany}

SearchQueries == {"cow", "wool"}
SearchLimits == {1, 2, TOP_K_RESULTS}

\* filter_type: "" stands for None and the empty string (no filter)
FilterTypes == {"", "breed", "species", "color"}

\* a search that forgets its filter
apply_no_filter(coll, filter_type) == coll

\* lines 242-243: collection_ref.where("type", "==", filter_type)
apply_filter(coll, filter_type) ==
    IF filter_type # "" THEN {d \in coll : d.type = filter_type} ELSE coll

NoSearchCall ==
    [op |-> "none", query |-> "", k |-> 0, filter |-> "", raised |-> "",
     unindexed |-> FALSE, seen |-> FALSE, flagged |-> FALSE, rebuilt |-> FALSE,
     db_calls |-> 0, writes |-> 0, embed_calls |-> 0, before |-> {},
     index |-> {}, pc |-> "idle", rebuild |-> "idle", found |-> <<>>, results |-> <<>>, context |-> <<>>, n |-> 0]

SearchQuiet == searchCall = NoSearchCall

\* one run of search: op says who asked (search itself, or
\* get_context_for_query, which then formats the results); before and index
\* are the collection when the call started and when it ended
SearchRun(op, query, k, filter_type) ==
    /\ Ended("main")
    /\ searchCall.n < MaxSearches
    /\ LET boot == search_bootstraps(initialized, collection)
           call == [NoSearchCall EXCEPT
                       !.op = op, !.query = query, !.k = k, !.filter = filter_type,
                       !.unindexed = ~check_if_indexed(collection),
                       !.seen = searchCall.seen \/ searchCall.unindexed,
                       !.flagged = initialized,
                       !.before = collection,
                       !.index = collection,
                       !.n = searchCall.n + 1]
       IN  \/ \E coll \in {search_collection(initialized, collection, source)} :
              \E found \in {FindNearest(apply_filter(coll, filter_type),
                                        QueryEmbed(query), k)} :
                 /\ collection' = coll
                 /\ initialized' = search_initialized(initialized, collection)
                 /\ searchCall' =
                       [call EXCEPT
                           !.index = coll,
                           !.rebuilt = boot,
                           !.db_calls = IF boot THEN extract_db_calls(source) ELSE 0,
                           !.writes = IF boot
                                      THEN (Len(extract_documents(source)) + BATCH_SIZE - 1)
                                               \div BATCH_SIZE
                                      ELSE 0,
                           !.embed_calls = search_embed_calls(initialized, collection, source),
                           !.found = found,
                           !.results = format_results(found),
                           !.context = IF op = "context"
                                       THEN get_context_for_query(format_results(found))
                                       ELSE <<>>]
           \/ /\ searchCall' = [call EXCEPT !.raised = "ProviderError"]
              /\ UNCHANGED <<collection, initialized>>
    /\ UNCHANGED <<nodeVars, histVars, dbVars, chatVars, source, ix, prev>>

\* how an index_database call ends: it returns, or an exception leaves it
\* before its first write (after the deletes of a forced call)
IndexOutcomes == {"returns", "raises"}

\* the collection an index_database(force_rebuild) call leaves when run
\* alone on a source of at most one write batch
index_database_collection(coll, src, force, outcome) ==
    IF ~force /\ check_if_indexed(coll) THEN coll
    ELSE IF outcome = "raises" THEN (IF force THEN {} ELSE coll)
    ELSE CommitBatch(IF force THEN {} ELSE coll, extract_documents(src))

\* RAGSystem._initialized after that call (lines 139 and 225)
index_database_initialized(init, coll, src, force, outcome) ==
    IF ~force /\ check_if_indexed(coll) THEN TRUE
    ELSE IF outcome = "raises" THEN init
    ELSE IF extract_documents(src) = <<>> THEN init
    ELSE TRUE

\* index_database(force_rebuild) called by the startup or the maintenance
\* job and run to its end
Reindex(force, outcome) ==
    /\ Ended("main")
    /\ searchCall.n < MaxSearches
    /\ collection' = index_database_collection(collection, source, force, outcome)
    /\ initialized' = index_database_initialized(initialized, collection, source,
                                                 force, outcome)
    /\ UNCHANGED <<nodeVars, histVars, dbVars, searchVars, chatVars, source, ix, prev>>

\* rag.search(query, n_results, filter_type)
Search(query, k, filter_type) == SearchRun("search", query, k, filter_type)

\* rag.get_context_for_query(query): search(query) with the defaults
GetContext(query) == SearchRun("context", query, TOP_K_RESULTS, "")

(***************************************************************************)
(* rag.py: search step by step, next to a forced index_database run by     *)
(* another caller.  search opens with the test of line 232, runs its own   *)
(* non-forced index_database (process "search") when the test says so, and *)
(* then queries the collection as it is at that moment.                    *)
(***************************************************************************)
\* the stored documents of a source whose rows have different keys
BuiltIndex(src) ==
    LET documents == extract_documents(src)
    IN  {Stored(documents[i]) : i \in 1..Len(documents)}

\* index_database(force_rebuild=True) is entered by the maintenance caller
RebuildCall ==
    /\ ix["main"].pc = "idle"
    /\ IndexCall("main", TRUE)

\* line 232
SearchOpen(query, k, filter_type) ==
    /\ searchCall.pc = "idle"
    /\ Ended("search")
    /\ searchCall.n < MaxSearches
    /\ \E indexed \in {check_if_indexed(collection)} :
       \E boot \in {search_bootstraps(initialized, collection)} :
       /\ searchCall' =
             [NoSearchCall EXCEPT
                 !.op = "search", !.query = query, !.k = k, !.filter = filter_type,
                 !.unindexed = ~indexed,
                 !.seen = searchCall.seen \/ searchCall.unindexed,
                 !.flagged = initialized,
                 !.before = collection,
                 !.rebuilt = boot,
                 !.n = searchCall.n + 1,
                 !.pc = IF boot THEN "boot" ELSE "query"]
       /\ ix' = IF boot
                THEN [ix EXCEPT !["search"] =
                         [IdleCall EXCEPT !.pc = "check", !.before = collection]]
                ELSE ix
    /\ UNCHANGED <<nodeVars, histVars, dbVars, chatVars, source, collection,
                   initialized, prev>>

\* lines 233-234: index_database() returned, or its exception leaves search
SearchBooted ==
    /\ searchCall.pc = "boot"
    /\ \/ /\ ix["search"].pc = "returned"
          /\ initialized' = TRUE
          /\ searchCall' = [searchCall EXCEPT !.pc = "query"]
          /\ ix' = [ix EXCEPT !["search"].pc = "idle"]
       \/ /\ ix["search"].pc = "failed"
          /\ searchCall' = [searchCall EXCEPT !.pc = "idle",
                                              !.raised = "ProviderError"]
          /\ ix' = [ix EXCEPT !["search"].pc = "idle"]
          /\ UNCHANGED initialized
    /\ UNCHANGED <<nodeVars, histVars, dbVars, chatVars, source, collection, prev>>

\* lines 237-267: the query is embedded and the nearest documents returned;
\* rebuild is where the other caller's index_database stands at that moment
SearchQuery ==
    /\ searchCall.pc = "query"
    /\ \/ \E found \in {FindNearest(apply_filter(collection, searchCall.filter),
                                     QueryEmbed(searchCall.query), searchCall.k)} :
             searchCall' = [searchCall EXCEPT
                               !.pc = "idle",
                               !.index = collection,
                               !.rebuild = ix["main"].pc,
                               !.found = found,
                               !.results = format_results(found)]
       \/ searchCall' = [searchCall EXCEPT !.pc = "idle", !.raised = "ProviderError"]
    /\ UNCHANGED <<nodeVars, histVars, dbVars, chatVars, ragVars>>

(***************************************************************************)
(* agent.py: the node functions.  A node takes the state (and what the     *)
(* provider answered, when it calls one) and returns the update.           *)
(***************************************************************************)

\* `if not user_input`: the empty string is falsy
classify_short_circuit(state) == Get(state, "user_input", "") = ""

\* the number of llm.invoke calls classify_query makes on this state
classify_always_calls(state) == 1
classify_llm_calls(state) == IF classify_short_circuit(state) THEN 0 ELSE 1

\* classify_query with `"livestock" == classification` instead of `in`
classify_query_equality(state, raw) ==
    IF classify_short_circuit(state) THEN [query_type |-> "general"]
    ELSE IF Lower(Strip(raw)) = LIVESTOCK
         THEN [query_type |-> "livestock"]
         ELSE [query_type |-> "general"]

\* classify_query; raw is response.content of the one llm.invoke call
classify_query(state, raw) ==
    IF classify_short_circuit(state) THEN [query_type |-> "general"]
    ELSE LET classification == Lower(Strip(raw)) IN
         IF Contains(LIVESTOCK, classification)
         THEN [query_type |-> "livestock"]
         ELSE [query_type |-> "general"]

\* route_query that sends every turn to retrieval
route_query_always_retrieve(state) == "retrieve"

\* route_query that sends everything but "general" to retrieval
route_query_default_retrieve(state) ==
    IF Get(state, "query_type", "general") = "general"
    THEN "generate_direct" ELSE "retrieve"

route_query(state) ==
    LET query_type == Get(state, "query_type", "general") IN
    IF query_type = "livestock" THEN "retrieve" ELSE "generate_direct"

\* retrieve_context; ctx is what rag.get_context_for_query returned (the
\* empty string is the empty list of lines)
\* a retrieve_context that asks the index whatever the input
retrieve_always_calls(state) == TRUE

retrieve_calls_rag(state) == Get(state, "user_input", "") # ""

\* a retrieve_context that keeps a context the state already holds
retrieve_context_keep_earlier(state, ctx) ==
    IF "context" \in DOMAIN state THEN [context |-> state["context"]]
    ELSE [context |-> ctx]

retrieve_context(state, ctx) ==
    IF ~retrieve_calls_rag(state) THEN [context |-> <<>>]
    ELSE [context |-> ctx]

UserTurn(content) == [role |-> "user", content |-> content]
AssistantTurn(content) == [role |-> "assistant", content |-> content]

\* a generate_direct that forgets the user's turn
generate_direct_drop_user(state, response_text) ==
    [response |-> response_text,
     messages |-> Append(Get(state, "messages", <<>>), AssistantTurn(response_text))]

\* a generate_response that forgets the user's turn
generate_response_reply_only(state, response_text) ==
    [response |-> response_text,
     messages |-> Append(Get(state, "messages", <<>>), AssistantTurn(response_text))]

\* generate_response, lines 154-162; response_text is response.content
generate_response(state, response_text) ==
    LET user_input == Get(state, "user_input", "")
        messages == Get(state, "messages", <<>>)
        new_messages == Append(Append(messages, UserTurn(user_input)),
                               AssistantTurn(response_text))
    IN  [response |-> response_text, messages |-> new_messages]

\* generate_direct, lines 188-196
generate_direct(state, response_text) ==
    LET user_input == Get(state, "user_input", "")
        messages == Get(state, "messages", <<>>)
        new_messages == Append(Append(messages, UserTurn(user_input)),
                               AssistantTurn(response_text))
    IN  [response |-> response_text, messages |-> new_messages]

(***************************************************************************)
(* agent.py: the prompt of the two generation nodes.  full_prompt is the   *)
(* parts of prompt_parts joined by newlines; a part is kept as a record of *)
(* the template it was made from and what was put in it.                   *)
(***************************************************************************)
Part(kind, role, content, context) ==
    [kind |-> kind, role |-> role, content |-> content, context |-> context]

\* messages[-10:]
HISTORY_WINDOW == 10

\* a prompt that shows the whole history
whole_history(messages) == messages

\* lines 142 and 176: messages[-10:]
recent_messages(messages) ==
    IF Len(messages) <= HISTORY_WINDOW THEN messages
    ELSE SubSeq(messages, Len(messages) - HISTORY_WINDOW + 1, Len(messages))

\* lines 140-144 and 174-178: the "Recent conversation:" part and one part
\* per shown message, "User: ..." or "Assistant: ..."
history_parts(messages) ==
    IF messages = <<>> THEN <<>>
    ELSE LET shown == recent_messages(messages) IN
         <<Part("\nRecent conversation:", "", "", <<>>)>>
         \o [i \in 1..Len(shown) |->
                Part("{role}: {content}",
                     IF shown[i].role = "user" THEN "User" ELSE "Assistant",
                     shown[i].content, <<>>)]

\* lines 137: the context block, added when context is truthy
context_parts(context) ==
    IF context # <<>>
    THEN <<Part("\n--- DATABASE CONTEXT ---\n{context}\n--- END CONTEXT ---\n",
                "", "", context)>>
    ELSE <<>>

\* lines 146 and 180
current_part(user_input) ==
    Part("\nUser: {user_input}\n\nAssistant:", "User", user_input, <<>>)

\* generate_response, lines 129-148: prompt_parts
generate_response_prompt(state) ==
    <<Part("SYSTEM_PROMPT", "", "", <<>>)>>
    \o context_parts(Get(state, "context", <<>>))
    \o history_parts(Get(state, "messages", <<>>))
    \o <<current_part(Get(state, "user_input", ""))>>

\* generate_direct, lines 167-182: prompt_parts
generate_direct_prompt(state) ==
    <<Part("GENERAL_PROMPT", "", "", <<>>)>>
    \o history_parts(Get(state, "messages", <<>>))
    \o <<current_part(Get(state, "user_input", ""))>>

\* the graph with the retrieve node wired to generate_direct
next_node_miswired(node, state) ==
    IF node = "classify" THEN route_query(state)
    ELSE IF node = "retrieve" THEN "generate_direct"
    ELSE "end"

\* build_graph: the edges.  START -> classify is taken by the invocation.
next_node(node, state) ==
    IF node = "classify" THEN route_query(state)
    ELSE IF node = "retrieve" THEN "generate"
    ELSE "end"

(***************************************************************************)
(* chat_history.py: ChatHistoryStore over the Firestore collection of      *)
(* conversations.  A document is stored under the id user_id + "_" +       *)
(* thread_id; user and thread ids are sequences of characters.  Times are  *)
(* numbers read from the clock; an ISO text of a time is a record.         *)
(***************************************************************************)
StoreUsers == {<<"a">>, <<"a", "_", "b">>}
StoreThreads == {<<"c">>, <<"b", "_", "c">>}

MaxStoreOps == 3

\* line 30: f"{user_id}_{thread_id}"
get_doc_id(user_id, thread_id) == user_id \o <<"_">> \o thread_id

\* now.isoformat() + "Z"
IsoZ(now) == [iso |-> now, z |-> TRUE]

\* timestamps a caller may have put on a message
CallerStamps == {[iso |-> 0, z |-> TRUE], [iso |-> 0, z |-> FALSE]}

\* the turn sequences callers save: with and without timestamps, with a
\* repeated turn, and empty
TurnSeqs ==
    { <<>>,
      <<UserTurn("hi")>>,
      <<UserTurn("hi"), AssistantTurn("ok")>>,
      <<AssistantTurn("ok"), UserTurn("hi"), UserTurn("hi")>> }
    \cup { <<[role |-> "user", content |-> "cow", timestamp |-> ts],
             AssistantTurn("moo")>> : ts \in CallerStamps }

\* a save that keeps a message's own timestamp out
stamp_with_now(messages, now) ==
    [i \in 1..Len(messages) |->
        [role |-> messages[i].role, content |-> messages[i].content,
         timestamp |-> IsoZ(now)]]

\* lines 68-76: timestamped_messages
timestamped(messages, now) ==
    [i \in 1..Len(messages) |->
        [role |-> messages[i].role,
         content |-> messages[i].content,
         timestamp |-> IF "timestamp" \in DOMAIN messages[i]
                       THEN messages[i].timestamp ELSE IsoZ(now)]]

\* a save that appends to the stored turns
save_appending(docs, user_id, thread_id, messages, now) ==
    LET doc_id == get_doc_id(user_id, thread_id)
        stamped == timestamped(messages, now)
    IN  IF doc_id \in DOMAIN docs
        THEN [docs EXCEPT ![doc_id] =
                 [@ EXCEPT !.messages = @ \o stamped,
                           !.updated_at = now,
                           !.message_count = @ + Len(stamped)]]
        ELSE Merge(docs, [k \in {doc_id} |->
                 [user_id |-> user_id, thread_id |-> thread_id,
                  messages |-> stamped, created_at |-> now, updated_at |-> now,
                  message_count |-> Len(stamped)]])

\* save_messages, lines 63-97: the collection it leaves
save_messages(docs, user_id, thread_id, messages, now) ==
    LET doc_id == get_doc_id(user_id, thread_id)
        stamped == timestamped(messages, now)
    IN  IF doc_id \in DOMAIN docs
        THEN [docs EXCEPT ![doc_id] =
                 [@ EXCEPT !.messages = stamped,
                           !.updated_at = now,
                           !.message_count = Len(stamped)]]
        ELSE Merge(docs, [k \in {doc_id} |->
                 [user_id |-> user_id, thread_id |-> thread_id,
                  messages |-> stamped, created_at |-> now, updated_at |-> now,
                  message_count |-> Len(stamped)]])

\* get_messages, lines 42-52
get_messages(docs, user_id, thread_id) ==
    LET doc_id == get_doc_id(user_id, thread_id)
    IN  IF doc_id \in DOMAIN docs
        THEN [i \in 1..Len(docs[doc_id].messages) |->
                 [role |-> docs[doc_id].messages[i].role,
                  content |-> docs[doc_id].messages[i].content]]
        ELSE <<>>

\* a delete that does not look first
delete_blind(docs, user_id, thread_id) == TRUE

\* delete_thread, lines 173-179: whether it issues the delete
delete_issued(docs, user_id, thread_id) ==
    get_doc_id(user_id, thread_id) \in DOMAIN docs

\* the collection a delete of doc_id leaves
Without(docs, doc_id) == [k \in DOMAIN docs \ {doc_id} |-> docs[k]]

NoStoreCall ==
    [op |-> "none", user |-> <<>>, thread |-> <<>>, given |-> <<>>, now |-> 0,
     got |-> <<>>, deleted |-> FALSE, deletes |-> 0, before |-> EmptyDict,
     limit |-> 0, answered |-> TRUE,
     last |-> [op |-> "none", user |-> <<>>, thread |-> <<>>, given |-> <<>>]]

Summary(call) ==
    [op |-> call.op, user |-> call.user, thread |-> call.thread, given |-> call.given]

\* the callers of SpecShared and the call each has in progress: pc is idle,
\* write (save_messages read the document, line 79, and has its write to
\* issue), delete (delete_thread saw the document, line 175, and has its
\* delete to issue), returned or failed
Callers == {"c1", "c2"}

IdleCaller ==
    [pc |-> "idle", op |-> "none", given |-> <<>>, now |-> 0, exists |-> FALSE,
     result |-> FALSE, raised |-> ""]

StoreQuiet ==
    /\ clock = 0
    /\ storeCall = NoStoreCall
    /\ caller = [c \in Callers |-> IdleCaller]

\* chat_store.save_messages(user_id, thread_id, messages)
StoreSave(user_id, thread_id, messages) ==
    /\ clock < MaxStoreOps
    /\ \E now \in {clock + 1} :
          /\ clock' = now
          /\ store' = save_messages(store, user_id, thread_id, messages, now)
          /\ storeCall' = [NoStoreCall EXCEPT !.op = "save", !.user = user_id,
                                              !.thread = thread_id,
                                              !.given = messages, !.now = now,
                                              !.before = store,
                                              !.last = Summary(storeCall)]
    /\ UNCHANGED <<nodeVars, dbVars, searchVars, ragVars, req, checkpoint, turns,
                   caller>>

\* chat_store.get_messages(user_id, thread_id)
StoreGet(user_id, thread_id) ==
    /\ clock < MaxStoreOps
    /\ clock' = clock + 1
    /\ storeCall' = [NoStoreCall EXCEPT !.op = "get", !.user = user_id,
                                        !.thread = thread_id,
                                        !.got = get_messages(store, user_id, thread_id),
                                        !.before = store,
                                        !.last = Summary(storeCall)]
    /\ UNCHANGED <<nodeVars, dbVars, searchVars, ragVars, req, checkpoint, turns, store,
                   caller>>

\* chat_store.delete_thread(user_id, thread_id)
StoreDelete(user_id, thread_id) ==
    /\ clock < MaxStoreOps
    /\ clock' = clock + 1
    /\ \E issued \in {delete_issued(store, user_id, thread_id)} :
          /\ store' = IF issued THEN Without(store, get_doc_id(user_id, thread_id))
                      ELSE store
          /\ storeCall' = [NoStoreCall EXCEPT !.op = "delete", !.user = user_id,
                                              !.thread = thread_id,
                                              !.deleted = issued,
                                              !.deletes = IF issued THEN 1 ELSE 0,
                                              !.before = store,
                                              !.last = Summary(storeCall)]
    /\ UNCHANGED <<nodeVars, dbVars, searchVars, ragVars, req, checkpoint, turns,
                   caller>>

PREVIEW_LENGTH == 100

\* lines 119-125: the first user message's content cut to 100 characters,
\* and the first message's when that gave nothing
preview_of(messages) ==
    LET users == {i \in 1..Len(messages) : messages[i].role = "user"}
        first == IF users = {} THEN <<>>
                 ELSE Take(messages[CHOOSE i \in users : \A j \in users : i <= j].content,
                           PREVIEW_LENGTH)
    IN  IF first = <<>> /\ messages # <<>>
        THEN Take(messages[1].content, PREVIEW_LENGTH)
        ELSE first

\* lines 138-144: the summary of one stored thread
thread_summary(data) ==
    [thread_id |-> data.thread_id, message_count |-> data.message_count,
     created_at |-> data.created_at, updated_at |-> data.updated_at,
     preview |-> preview_of(data.messages)]

\* query.stream(): the documents of the query, in the order of their ids
RECURSIVE StreamDocs(_, _)
StreamDocs(docs, ids) ==
    IF ids = {} THEN <<>>
    ELSE LET k == CHOOSE k \in ids : \A j \in ids \ {k} : LexLess(k, j)
         IN  <<docs[k]>> \o StreamDocs(docs, ids \ {k})

\* list.sort(key, reverse=True) on updated_at: later first, and threads of
\* one time in the order they had
RECURSIVE SortByUpdated(_)
SortByUpdated(threads) ==
    IF threads = <<>> THEN <<>>
    ELSE LET i == CHOOSE i \in 1..Len(threads) :
                      /\ \A j \in 1..Len(threads) :
                            threads[j].updated_at <= threads[i].updated_at
                      /\ \A j \in 1..(i - 1) :
                            threads[j].updated_at < threads[i].updated_at
             rest == [j \in 1..(Len(threads) - 1) |->
                         IF j < i THEN threads[j] ELSE threads[j + 1]]
         IN  <<threads[i]>> \o SortByUpdated(rest)

\* a listing that puts the thread updated longest ago first
RECURSIVE Reversed(_)
Reversed(seq) == IF seq = <<>> THEN <<>> ELSE Append(Reversed(Tail(seq)), Head(seq))

get_user_threads_oldest_first(docs, user_id, limit) ==
    LET mine == {k \in DOMAIN docs : docs[k].user_id = user_id}
        streamed == StreamDocs(docs, mine)
        threads == [i \in 1..Len(streamed) |-> thread_summary(streamed[i])]
    IN  Take(Reversed(SortByUpdated(threads)), limit)

\* get_user_threads, lines 110-157, when the query answers (limit >= 0)
get_user_threads(docs, user_id, limit) ==
    LET mine == {k \in DOMAIN docs : docs[k].user_id = user_id}
        streamed == StreamDocs(docs, mine)
        threads == [i \in 1..Len(streamed) |-> thread_summary(streamed[i])]
    IN  Take(SortByUpdated(threads), limit)

\* chat_store.get_user_threads(user_id, limit); the query answers or raises,
\* and lines 158-160 turn a raise into the empty list
StoreList(user_id, limit) ==
    /\ clock < MaxStoreOps
    /\ clock' = clock + 1
    /\ \E answered \in BOOLEAN :
          storeCall' = [NoStoreCall EXCEPT !.op = "list", !.user = user_id,
                                          !.limit = limit,
                                          !.answered = answered,
                                          !.got = IF answered
                                                  THEN get_user_threads(store, user_id, limit)
                                                  ELSE <<>>,
                                          !.before = store,
                                          !.last = Summary(storeCall)]
    /\ UNCHANGED <<nodeVars, dbVars, searchVars, ragVars, req, checkpoint, turns, store,
                   caller>>

(***************************************************************************)
(* agent.py: chat(user_input, thread_id) as a process, and api.py's        *)
(* POST /chat that calls it.  pc is the place of a request: get_state      *)
(* (agent.py line 245), invoke (249), the graph nodes classify, retrieve,  *)
(* generate and generate_direct, end (the graph reached END), and the ends *)
(* returned, failed (an exception left chat) and responded (the endpoint   *)
(* answered).  The graph is compiled with a MemorySaver: after every node  *)
(* the state is saved under the thread id, and an invocation starts from   *)
(* the saved state overwritten by its input.                               *)
(***************************************************************************)
Reqs == {"r1", "r2"}
Threads == {"t1", "t2"}
Users == {"u1"}

MaxTurns == 2
SeedTurns == 6

ChatInputs == {"", "cow"}
GenResponses == {"moo", "ok"}
GENERAL == <<"g", "e", "n", "e", "r", "a", "l">>
ChatClassifierResponses ==
    {LIVESTOCK, GENERAL, <<" ", "L", "i", "v", "e", "s", "t", "o", "c", "k", "\n">>}

APOLOGY == "I apologize, but I couldn't generate a response."

\* def chat(user_input: str, thread_id: str = "default")
chat_parameters == <<"user_input", "thread_id">>

\* a call with more positional arguments than parameters raises TypeError
BindsPositional(parameters, args) == Len(args) <= Len(parameters)

\* an endpoint that answers with the text of the exception
leak_error_detail(exc) == exc

\* api.py lines 683-685: except Exception as e -> HTTPException(500,
\* detail="Failed to process message"); exc stands for str(e)
chat_error_detail(exc) == "Failed to process message"

\* a turn whose provider error is swallowed: chat returns its fallback text
fail_turn_swallowed(rec, exc) ==
    [rec EXCEPT !.pc = IF rec.via = "http" THEN "responded" ELSE "returned",
                !.status = IF rec.via = "http" THEN 200 ELSE 0,
                !.raised = exc,
                !.result = APOLOGY]

\* an exception leaves agent.invoke and chat (no try in agent.py); under
\* POST /chat the endpoint's except clause answers 500
fail_turn(rec, exc) ==
    IF rec.via = "http"
    THEN [rec EXCEPT !.pc = "responded", !.status = 500, !.raised = exc,
                     !.detail = chat_error_detail(exc)]
    ELSE [rec EXCEPT !.pc = "failed", !.raised = exc]

IdleReq ==
    [pc |-> "idle", via |-> "none", thread |-> "t1", user |-> "",
     user_input |-> "", prior |-> <<>>, state |-> EmptyDict, path |-> <<>>,
     gen |-> "", llm_calls |-> 0, rag_calls |-> 0, gen_calls |-> 0,
     raised |-> "", result |-> "", status |-> 0, detail |-> "",
     classified |-> "", retrieved |-> <<>>, prompt |-> <<>>]

Free(r) == req[r].pc \in {"idle", "returned", "failed", "responded"}

\* the saved state of a thread after n turns that were all classified
\* general ("hi" answered "ok")
RECURSIVE AfterGeneralTurns(_)
AfterGeneralTurns(n) ==
    IF n = 0 THEN EmptyDict
    ELSE LET saved == AfterGeneralTurns(n - 1)
             s0 == Merge(saved, [user_input |-> "hi",
                                 messages |-> Get(saved, "messages", <<>>)])
             s1 == Merge(s0, classify_query(s0, GENERAL))
         IN  Merge(s1, generate_direct(s1, "ok"))

\* the index as the startup left it: initialize() built it from the source,
\* found nothing to build, or was not run (chat used without the API)
StartupIndex ==
    \/ /\ source = SrcEmpty
       /\ collection = {}
       /\ initialized = FALSE
    \/ /\ source = SrcSmall
       /\ collection = CommitBatch({}, extract_documents(SrcSmall))
       /\ initialized = TRUE
    \/ /\ source = SrcSmall
       /\ collection = {}
       /\ initialized = FALSE

ChatQuiet ==
    /\ req = [r \in Reqs |-> IdleReq]
    /\ checkpoint = [t \in Threads |-> EmptyDict]
    /\ store = EmptyDict
    /\ turns = 0
    /\ StoreQuiet
    /\ DbQuiet
    /\ SearchQuiet

ChatInit ==
    /\ req = [r \in Reqs |-> IdleReq]
    /\ \E seed \in {0, SeedTurns} :
          checkpoint = [t \in Threads |->
                           IF t = "t1" THEN AfterGeneralTurns(seed) ELSE EmptyDict]
    /\ store = EmptyDict
    /\ turns = 0
    /\ StoreQuiet
    /\ DbQuiet
    /\ SearchQuiet
    /\ StartupIndex
    /\ ix = [p \in Procs |-> IdleCall]
    /\ prev = [p \in Procs |-> NoPrev]
    /\ nodeIn = EmptyDict
    /\ nodeCall = [node |-> "none"]

\* chat(user_input, thread_id) called directly
ChatCall(r, user_input, thread) ==
    /\ Free(r)
    /\ turns < MaxTurns
    /\ req' = [req EXCEPT ![r] = [IdleReq EXCEPT !.pc = "get_state",
                                                 !.via = "chat",
                                                 !.thread = thread,
                                                 !.user_input = user_input]]
    /\ turns' = turns + 1
    /\ UNCHANGED <<nodeVars, histVars, dbVars, searchVars, ragVars, checkpoint, store>>

\* api.py chat_endpoint: ChatRequest validation (message of 1..4000
\* characters), then chat(request.message, request.thread_id, request.user_id)
\* inside try/except Exception -> HTTPException(500)
HttpChat(r, message, thread, user) ==
    /\ Free(r)
    /\ turns < MaxTurns
    /\ LET start == [IdleReq EXCEPT !.via = "http", !.thread = thread,
                                    !.user = user, !.user_input = message]
       IN  req' = [req EXCEPT ![r] =
                IF message = ""
                THEN [start EXCEPT !.pc = "responded", !.status = 422]
                ELSE IF ~BindsPositional(chat_parameters, <<message, thread, user>>)
                THEN fail_turn(start, "TypeError")
                ELSE [start EXCEPT !.pc = "get_state"]]
    /\ turns' = turns + 1
    /\ UNCHANGED <<nodeVars, histVars, dbVars, searchVars, ragVars, checkpoint, store>>

\* lines 245-246: agent.get_state(config), messages = values.get("messages", [])
ChatGetState(r) ==
    /\ req[r].pc = "get_state"
    /\ req' = [req EXCEPT ![r].prior = Get(checkpoint[req[r].thread], "messages", <<>>),
                          ![r].pc = "invoke"]
    /\ UNCHANGED <<nodeVars, histVars, dbVars, searchVars, ragVars, checkpoint, store, turns>>

\* lines 249-252: agent.invoke({"user_input", "messages"}, config): the input
\* is written over the thread's saved state and the graph starts at classify
GraphStart(r) ==
    /\ req[r].pc = "invoke"
    /\ \E st \in {Merge(checkpoint[req[r].thread],
                         [user_input |-> req[r].user_input, messages |-> req[r].prior])} :
           /\ req' = [req EXCEPT ![r].state = st, ![r].pc = "classify"]
           /\ checkpoint' = [checkpoint EXCEPT ![req[r].thread] = st]
    /\ UNCHANGED <<nodeVars, histVars, dbVars, searchVars, ragVars, store, turns>>

\* a node returned: its update is merged, the state saved, the edge followed
Advance(r, rec, node, update) ==
    \E st \in {Merge(rec.state, update)} :
        /\ req' = [req EXCEPT ![r] = [rec EXCEPT !.state = st,
                                                 !.path = Append(rec.path, node),
                                                 !.pc = next_node(node, st)]]
        /\ checkpoint' = [checkpoint EXCEPT ![rec.thread] = st]

GraphClassify(r) ==
    /\ req[r].pc = "classify"
    /\ LET n == classify_llm_calls(req[r].state)
           rec == [req[r] EXCEPT !.llm_calls = @ + n]
       IN  \E raw \in (IF n = 0 THEN {<<>>} ELSE ChatClassifierResponses) :
           \E update \in {classify_query(req[r].state, raw)} :
              Advance(r, [rec EXCEPT !.classified = update.query_type],
                      "classify", update)
    /\ UNCHANGED <<nodeVars, histVars, dbVars, searchVars, ragVars, store, turns>>

\* retrieve_context -> rag.get_context_for_query -> rag.search, which builds
\* the index first when it has to
GraphRetrieve(r) ==
    /\ req[r].pc = "retrieve"
    /\ LET st == req[r].state
           calls == retrieve_calls_rag(st)
           boot == calls /\ search_bootstraps(initialized, collection)
           rec == [req[r] EXCEPT !.rag_calls = @ + (IF calls THEN 1 ELSE 0)]
       IN  \E coll \in {IF boot THEN BootstrapCollection(collection, source)
                                ELSE collection} :
           \E found \in {FindNearest(coll, QueryEmbed(Get(st, "user_input", "")),
                                     TOP_K_RESULTS)} :
           \E ctx \in {get_context_for_query(format_results(found))} :
              /\ collection' = coll
              /\ initialized' = (initialized \/ boot)
              /\ Advance(r, [rec EXCEPT !.retrieved = IF calls THEN ctx ELSE <<>>],
                         "retrieve", retrieve_context(st, ctx))
    /\ UNCHANGED <<nodeVars, histVars, dbVars, searchVars, source, ix, prev, store, turns>>

GraphGenerate(r) ==
    /\ req[r].pc = "generate"
    /\ \E response_text \in GenResponses :
          Advance(r, [req[r] EXCEPT !.gen = response_text, !.gen_calls = @ + 1,
                                    !.prompt = generate_response_prompt(req[r].state)],
                  "generate", generate_response(req[r].state, response_text))
    /\ UNCHANGED <<nodeVars, histVars, dbVars, searchVars, ragVars, store, turns>>

GraphGenerateDirect(r) ==
    /\ req[r].pc = "generate_direct"
    /\ \E response_text \in GenResponses :
          Advance(r, [req[r] EXCEPT !.gen = response_text, !.gen_calls = @ + 1,
                                    !.prompt = generate_direct_prompt(req[r].state)],
                  "generate_direct", generate_direct(req[r].state, response_text))
    /\ UNCHANGED <<nodeVars, histVars, dbVars, searchVars, ragVars, store, turns>>

\* a provider call (the classifier, the retrieval, the generation) raised:
\* the node wrote nothing, the exception leaves agent.invoke and chat
GraphFail(r) ==
    /\ \/ req[r].pc = "classify" /\ classify_llm_calls(req[r].state) > 0
       \/ req[r].pc = "retrieve" /\ retrieve_calls_rag(req[r].state)
       \/ req[r].pc \in {"generate", "generate_direct"}
    /\ req' = [req EXCEPT ![r] = fail_turn(req[r], "ProviderError")]
    /\ UNCHANGED <<nodeVars, histVars, dbVars, searchVars, ragVars, checkpoint, store, turns>>

\* line 254: return result.get("response", APOLOGY)
ChatReturn(r) ==
    /\ req[r].pc = "end"
    /\ req' = [req EXCEPT ![r] =
                IF req[r].via = "http"
                THEN [@ EXCEPT !.pc = "responded", !.status = 200,
                               !.result = Get(req[r].state, "response", APOLOGY)]
                ELSE [@ EXCEPT !.pc = "returned",
                               !.result = Get(req[r].state, "response", APOLOGY)]]
    /\ UNCHANGED <<nodeVars, histVars, dbVars, searchVars, ragVars, checkpoint, store, turns>>

GraphStep(r) ==
    \/ ChatGetState(r)
    \/ GraphStart(r)
    \/ GraphClassify(r)
    \/ GraphRetrieve(r)
    \/ GraphGenerate(r)
    \/ GraphGenerateDirect(r)
    \/ ChatReturn(r)

(***************************************************************************)
(* The inputs of the node-level specification.                             *)
(***************************************************************************)
UserInputs == {"", "cow", "hi"}

QueryTypes == {"livestock", "general", "Livestock", "livestock ", "", "other"}

\* What the language model may answer to the classification prompt.
ClassifierResponses == {
    <<"l","i","v","e","s","t","o","c","k">>,
    <<"L","i","v","e","s","t","o","c","k">>,
    <<" ","L","I","V","E","S","T","O","C","K","\n">>,
    <<"\"","l","i","v","e","s","t","o","c","k","\"",".">>,
    <<"n","o","t"," ","l","i","v","e","s","t","o","c","k">>,
    <<"g","e","n","e","r","a","l">>,
    <<"G","e","n","e","r","a","l","\n">>,
    <<"l","i","v","e"," ","s","t","o","c","k">>,
    <<"l","i","v","e","s","t","o","c">>,
    <<" ","\n">>,
    <<>> }

OptField(key, values) == {EmptyDict} \cup {[k \in {key} |-> v] : v \in values}

\* What the state may hold as context: the empty string, what
\* get_context_for_query returns when the search finds nothing, and what it
\* returns for the documents of the small source.
Contexts ==
    { <<>>,
      get_context_for_query(<<>>),
      get_context_for_query(format_results(
          FindNearest(CommitBatch({}, extract_documents(SrcSmall)),
                      QueryEmbed("cow"), TOP_K_RESULTS))) }

MaxHistory == 12

\* a history of n messages, user and assistant in turn, each with its own
\* content
History(n) ==
    [i \in 1..n |-> [role |-> IF i % 2 = 1 THEN "user" ELSE "assistant",
                     content |-> ToString(i)]]

Histories ==
    { History(n) : n \in {0, 1, HISTORY_WINDOW - 1, HISTORY_WINDOW,
                          HISTORY_WINDOW + 1, MaxHistory} }

NodeStates ==
    { Merge(Merge(a, b), Merge(c, d)) :
          a \in OptField("user_input", UserInputs),
          b \in OptField("query_type", QueryTypes),
          c \in OptField("context", Contexts),
          d \in OptField("messages", Histories) }

NoCall == [node |-> "none"]

RagQuiet ==
    /\ source = SrcSmall
    /\ collection = {}
    /\ initialized = FALSE
    /\ ix = [p \in Procs |-> IdleCall]
    /\ prev = [p \in Procs |-> NoPrev]

NodeInit ==
    /\ nodeIn \in NodeStates
    /\ nodeCall = NoCall
    /\ RagQuiet
    /\ ChatQuiet

\* classify_query(state) called directly, as the tests do
NodeClassify ==
    /\ nodeCall = NoCall
    /\ \/ /\ classify_llm_calls(nodeIn) = 0
          /\ nodeCall' = [node |-> "classify_query", llm_calls |-> 0,
                          out |-> classify_query(nodeIn, <<>>)]
       \/ /\ classify_llm_calls(nodeIn) > 0
          /\ \E raw \in ClassifierResponses :
                nodeCall' = [node |-> "classify_query",
                             llm_calls |-> classify_llm_calls(nodeIn),
                             raw |-> raw,
                             out |-> classify_query(nodeIn, raw)]
       \/ /\ classify_llm_calls(nodeIn) > 0
          /\ nodeCall' = [node |-> "classify_query",
                          llm_calls |-> classify_llm_calls(nodeIn),
                          raised |-> "ProviderError"]
    /\ UNCHANGED <<nodeIn, ragVars, chatVars, histVars, dbVars, searchVars>>

\* route_query(state) called directly
NodeRoute ==
    /\ nodeCall = NoCall
    /\ nodeCall' = [node |-> "route_query", out |-> route_query(nodeIn)]
    /\ UNCHANGED <<nodeIn, ragVars, chatVars, histVars, dbVars, searchVars>>

\* retrieve_context(state) called directly, as the tests do
NodeRetrieve ==
    /\ nodeCall = NoCall
    /\ \/ /\ ~retrieve_calls_rag(nodeIn)
          /\ nodeCall' = [node |-> "retrieve_context", rag_calls |-> 0,
                          embed_calls |-> 0,
                          out |-> retrieve_context(nodeIn, <<>>)]
          /\ UNCHANGED <<collection, initialized>>
       \/ /\ retrieve_calls_rag(nodeIn)
          /\ \E coll \in {search_collection(initialized, collection, source)} :
             \E found \in {FindNearest(coll, QueryEmbed(Get(nodeIn, "user_input", "")),
                                       TOP_K_RESULTS)} :
                /\ collection' = coll
                /\ initialized' = search_initialized(initialized, collection)
                /\ nodeCall' =
                      [node |-> "retrieve_context", rag_calls |-> 1,
                       embed_calls |-> search_embed_calls(initialized, collection, source),
                       out |-> retrieve_context(nodeIn,
                                   get_context_for_query(format_results(found)))]
       \/ /\ retrieve_calls_rag(nodeIn)
          /\ nodeCall' = [node |-> "retrieve_context", rag_calls |-> 1,
                          raised |-> "ProviderError"]
          /\ UNCHANGED <<collection, initialized>>
    /\ UNCHANGED <<nodeIn, source, ix, prev, chatVars, histVars, dbVars, searchVars>>

\* generate_response(state) called directly
NodeGenerate ==
    /\ nodeCall = NoCall
    /\ \/ \E response_text \in GenResponses :
             nodeCall' = [node |-> "generate_response", llm_calls |-> 1,
                          prompt |-> generate_response_prompt(nodeIn),
                          out |-> generate_response(nodeIn, response_text)]
       \/ nodeCall' = [node |-> "generate_response", llm_calls |-> 1,
                       prompt |-> generate_response_prompt(nodeIn),
                       raised |-> "ProviderError"]
    /\ UNCHANGED <<nodeIn, ragVars, chatVars, histVars, dbVars, searchVars>>

\* generate_direct(state) called directly
NodeGenerateDirect ==
    /\ nodeCall = NoCall
    /\ \/ \E response_text \in GenResponses :
             nodeCall' = [node |-> "generate_direct", llm_calls |-> 1,
                          prompt |-> generate_direct_prompt(nodeIn),
                          out |-> generate_direct(nodeIn, response_text)]
       \/ nodeCall' = [node |-> "generate_direct", llm_calls |-> 1,
                       prompt |-> generate_direct_prompt(nodeIn),
                       raised |-> "ProviderError"]
    /\ UNCHANGED <<nodeIn, ragVars, chatVars, histVars, dbVars, searchVars>>

NodeNext ==
    \/ NodeClassify
    \/ NodeRoute
    \/ NodeRetrieve
    \/ NodeGenerate
    \/ NodeGenerateDirect

SpecNodes == NodeInit /\ [][NodeNext]_vars

(***************************************************************************)
(* SpecIndex: index_database called again and again by one caller (the     *)
(* startup or maintenance job), forced or not, while the source is edited  *)
(* and calls fail.                                                         *)
(***************************************************************************)
NodesQuiet ==
    /\ nodeIn = EmptyDict
    /\ nodeCall = NoCall

IndexInit == RagInit /\ NodesQuiet /\ ChatQuiet

IndexNext ==
    \/ SourceChange
    \/ \E force \in BOOLEAN : IndexCall("main", force)
    \/ IndexStep("main")

SpecIndex == IndexInit /\ [][IndexNext]_vars

(***************************************************************************)
(* SpecStore: saves, reads and deletes on the conversation store, one call *)
(* at a time, starting from the empty collection.                          *)
(***************************************************************************)
StoreInit == RagQuiet /\ NodesQuiet /\ ChatQuiet

StoreNext ==
    \/ \E u \in StoreUsers, t \in StoreThreads, m \in TurnSeqs : StoreSave(u, t, m)
    \/ \E u \in StoreUsers, t \in StoreThreads : StoreGet(u, t)
    \/ \E u \in StoreUsers, t \in StoreThreads : StoreDelete(u, t)

SpecStore == StoreInit /\ [][StoreNext]_vars

(***************************************************************************)
(* SpecThreads: threads saved and listed on the conversation store.  The   *)
(* contents are sequences of characters, short and longer than a preview.  *)
(***************************************************************************)
MaxContent == 101

\* a content of n characters
Text(ch, n) == [i \in 1..n |-> ch]

ListTurnSeqs ==
    { <<>>,
      <<UserTurn(Text("u", 1))>>,
      <<UserTurn(Text("u", MaxContent)), AssistantTurn(Text("a", 2))>>,
      <<AssistantTurn(Text("a", MaxContent)), UserTurn(Text("u", 3))>>,
      <<AssistantTurn(Text("a", 2))>>,
      <<AssistantTurn(Text("a", 2)), UserTurn(<<>>)>>,
      <<UserTurn(<<>>), AssistantTurn(Text("a", 2))>> }

\* 20 is the default of the parameter
ListLimits == {0, 1, 2, 20}

ThreadsNext ==
    \/ \E u \in StoreUsers, t \in StoreThreads, m \in ListTurnSeqs : StoreSave(u, t, m)
    \/ \E u \in StoreUsers, limit \in ListLimits : StoreList(u, limit)

SpecThreads == StoreInit /\ [][ThreadsNext]_vars

(***************************************************************************)
(* SpecShared: two callers of the conversation store working on the same   *)
(* thread at the same time, each making one call.  The store takes no lock *)
(* and uses no transaction, so the calls interleave at their Firestore     *)
(* requests: save_messages reads the document (line 79) and then issues    *)
(* update or set (82-97); delete_thread reads the document (175) and then  *)
(* issues delete (176).  Each request is atomic at the server.  update     *)
(* fails with NotFound on a document that is not there, set writes the     *)
(* whole document, and delete succeeds whether the document is there or    *)
(* not.                                                                    *)
(***************************************************************************)
SharedUser == <<"a">>
SharedThread == <<"c">>
SharedId == get_doc_id(SharedUser, SharedThread)

\* the turns of the thread the callers find, when they find one
StoredTurns == <<UserTurn("old"), AssistantTurn("ok")>>

\* DocumentReference.update(fields): the document's other fields stay
doc_update(docs, doc_id, fields) ==
    [docs EXCEPT ![doc_id] = Merge(@, fields)]

\* DocumentReference.set(fields): the document is these fields
doc_set(docs, doc_id, fields) ==
    [k \in DOMAIN docs \cup {doc_id} |-> IF k = doc_id THEN fields ELSE docs[k]]

\* lines 83-87: the fields of the update
update_fields(messages, now) ==
    [messages |-> timestamped(messages, now), updated_at |-> now,
     message_count |-> Len(messages)]

\* lines 91-97: the fields of the set
set_fields(user_id, thread_id, messages, now) ==
    [user_id |-> user_id, thread_id |-> thread_id,
     messages |-> timestamped(messages, now), created_at |-> now,
     updated_at |-> now, message_count |-> Len(messages)]

\* save_messages, lines 63-79: now is read, the turns are stamped, the
\* document is read
SaveLook(c, messages) ==
    /\ caller[c].pc = "idle"
    /\ clock' = clock + 1
    /\ caller' = [caller EXCEPT ![c] =
                     [IdleCaller EXCEPT !.pc = "write", !.op = "save",
                                        !.given = messages, !.now = clock + 1,
                                        !.exists = SharedId \in DOMAIN store]]
    /\ UNCHANGED <<nodeVars, dbVars, searchVars, ragVars, chatVars, storeCall>>

\* save_messages, lines 81-97: update when the document was there, set when
\* it was not
SaveWrite(c) ==
    /\ caller[c].pc = "write"
    /\ IF caller[c].exists
       THEN IF SharedId \in DOMAIN store
            THEN /\ store' = doc_update(store, SharedId,
                                        update_fields(caller[c].given, caller[c].now))
                 /\ caller' = [caller EXCEPT ![c].pc = "returned"]
            ELSE /\ store' = store
                 /\ caller' = [caller EXCEPT ![c].pc = "failed",
                                             ![c].raised = "NotFound"]
       ELSE /\ store' = doc_set(store, SharedId,
                                set_fields(SharedUser, SharedThread,
                                           caller[c].given, caller[c].now))
            /\ caller' = [caller EXCEPT ![c].pc = "returned"]
    /\ UNCHANGED <<nodeVars, dbVars, searchVars, ragVars, req, checkpoint, turns,
                   clock, storeCall>>

\* delete_thread, lines 173-175 and 179: the document is read; False when
\* it is not there
DeleteLook(c) ==
    /\ caller[c].pc = "idle"
    /\ caller' = [caller EXCEPT ![c] =
                     IF delete_issued(store, SharedUser, SharedThread)
                     THEN [IdleCaller EXCEPT !.pc = "delete", !.op = "delete",
                                             !.exists = TRUE]
                     ELSE [IdleCaller EXCEPT !.pc = "returned", !.op = "delete",
                                             !.result = FALSE]]
    /\ UNCHANGED <<nodeVars, dbVars, searchVars, ragVars, chatVars, clock, storeCall>>

\* delete_thread, lines 176-177: the delete is issued, True is returned
DeleteIssue(c) ==
    /\ caller[c].pc = "delete"
    /\ store' = Without(store, SharedId)
    /\ caller' = [caller EXCEPT ![c].pc = "returned", ![c].result = TRUE]
    /\ UNCHANGED <<nodeVars, dbVars, searchVars, ragVars, req, checkpoint, turns,
                   clock, storeCall>>

\* the store holds nothing, or the thread as a save at time 0 left it
SharedInit ==
    /\ RagQuiet
    /\ NodesQuiet
    /\ req = [r \in Reqs |-> IdleReq]
    /\ checkpoint = [t \in Threads |-> EmptyDict]
    /\ turns = 0
    /\ StoreQuiet
    /\ DbQuiet
    /\ SearchQuiet
    /\ store \in {EmptyDict,
                  save_messages(EmptyDict, SharedUser, SharedThread, StoredTurns, 0)}

SharedNext ==
    \/ \E c \in Callers, m \in TurnSeqs : SaveLook(c, m)
    \/ \E c \in Callers : SaveWrite(c)
    \/ \E c \in Callers : DeleteLook(c)
    \/ \E c \in Callers : DeleteIssue(c)

SpecShared == SharedInit /\ [][SharedNext]_vars

(***************************************************************************)
(* SpecDb: queries handed to Database.execute one after another, on a      *)
(* connection that opens at the first query that passes the check.         *)
(***************************************************************************)
DbInit == RagQuiet /\ NodesQuiet /\ ChatQuiet

DbNext == \E query \in Queries : DbExecute(query)

SpecDb == DbInit /\ [][DbNext]_vars

(***************************************************************************)
(* SpecHealth: GET /health and GET /ready, one request after another, on a *)
(* data source whose connection and queries can fail.                      *)
(***************************************************************************)
HealthInit == DbInit

HealthNext ==
    \/ \E counts \in SummaryCounts, fail_at \in 0..4,
          err \in {"ConnectionError", "DatabaseError"} : Health(counts, fail_at, err)
    \/ \E counts \in SummaryCounts, fail_at \in 0..4,
          err \in {"ConnectionError", "DatabaseError"} : Readiness(counts, fail_at, err)

SpecHealth == HealthInit /\ [][HealthNext]_vars

(***************************************************************************)
(* SpecSearch: a process that starts on an empty or an already built       *)
(* collection, rebuilds it (forced or not, with failures) and searches it. *)
(***************************************************************************)
SearchInit ==
    /\ source \in SearchSources
    /\ collection \in {{}, CommitBatch({}, extract_documents(SrcSmall))}
    /\ initialized = FALSE
    /\ ix = [p \in Procs |-> IdleCall]
    /\ prev = [p \in Procs |-> NoPrev]
    /\ NodesQuiet
    /\ ChatQuiet

SearchNext ==
    \/ \E force \in BOOLEAN, outcome \in IndexOutcomes : Reindex(force, outcome)
    \/ \E q \in SearchQueries, k \in SearchLimits, f \in FilterTypes : Search(q, k, f)
    \/ \E q \in SearchQueries : GetContext(q)

SpecSearch == SearchInit /\ [][SearchNext]_vars

(***************************************************************************)
(* SpecFormat: _format_breed_document and _format_species_document called  *)
(* on one row.  nodeIn holds the row, nodeCall the text returned.          *)
(***************************************************************************)
MaxItems == 25

\* n different item names, in source order
Items(n) == [i \in 1..n |-> ToString(i)]

ItemCounts == {0, 1, 14, 15, 16, 19, 20, 21, MaxItems}

FormatSpeciesRows ==
    { [Cattle EXCEPT !.colors = Items(c), !.patterns = Items(p),
                     !.categories = Items(g)] :
          c \in ItemCounts, p \in ItemCounts, g \in ItemCounts }

FormatBreedRows ==
    { [BreedRow(1, "Angus", species, 1, desc, meat, milk)
          EXCEPT !.WoolBreed = wool, !.EggBreed = egg, !.Working = working] :
          species \in {"", "Cattle"}, desc \in {"", "black, polled"},
          meat \in BOOLEAN, milk \in BOOLEAN, wool \in BOOLEAN,
          egg \in BOOLEAN, working \in BOOLEAN }

FormatInit ==
    /\ nodeIn \in FormatSpeciesRows \cup FormatBreedRows
    /\ nodeCall = NoCall
    /\ RagQuiet
    /\ ChatQuiet

FormatBreed ==
    /\ nodeCall = NoCall
    /\ nodeIn \in FormatBreedRows
    /\ nodeCall' = [node |-> "format_breed_document",
                    out |-> format_breed_document(nodeIn)]
    /\ UNCHANGED <<nodeIn, ragVars, chatVars, histVars, dbVars, searchVars>>

FormatSpecies ==
    /\ nodeCall = NoCall
    /\ nodeIn \in FormatSpeciesRows
    /\ nodeCall' = [node |-> "format_species_document",
                    out |-> format_species_document(nodeIn, nodeIn.colors,
                                                    nodeIn.patterns, nodeIn.categories)]
    /\ UNCHANGED <<nodeIn, ragVars, chatVars, histVars, dbVars, searchVars>>

FormatNext == FormatBreed \/ FormatSpecies

SpecFormat == FormatInit /\ [][FormatNext]_vars

(***************************************************************************)
(* SpecStartup: the lifespan of the API calls initialize() once, on an     *)
(* index that is empty or was built by an earlier process.  ix["main"] is  *)
(* the index_database call of initialize; dbCall records how the startup   *)
(* ended.                                                                  *)
(***************************************************************************)
\* an initialize that needs the summary to succeed
initialize_needs_summary(count, summary) ==
    IF summary.raised = "" THEN [startup |-> "started", count |-> count]
    ELSE [startup |-> "aborted", count |-> 0]

\* agent.py lines 261-266: the summary is printed, or its exception is
\* swallowed, and count is returned; api.py lines 56-57 go on to yield
initialize_end(count, summary) == [startup |-> "started", count |-> count]

\* agent.py line 260: count = rag.index_database()
InitializeCall ==
    /\ ix["main"].pc = "idle"
    /\ dbCall.op = "none"
    /\ IndexCall("main", FALSE)

\* agent.py lines 261-266 and api.py lines 56-57, after index_database
\* returned
InitializeSummary(counts, fail_at, err) ==
    /\ ix["main"].pc = "returned"
    /\ dbCall.op = "none"
    /\ SummaryFailure(dbConn, fail_at, err)
    /\ \E out \in {get_database_summary(dbConn, counts, fail_at, err)} :
       \E end \in {initialize_end(ix["main"].ret, out)} :
          /\ dbCall' = [NoDbCall EXCEPT !.op = "initialize", !.raised = out.raised,
                                        !.sent = out.sent > 0,
                                        !.connects = IF out.connected /\ ~dbConn
                                                     THEN 1 ELSE 0,
                                        !.n = 1,
                                        !.startup = end.startup,
                                        !.count = end.count]
          /\ dbConn' = out.connected
    /\ UNCHANGED <<nodeVars, histVars, searchVars, ragVars, chatVars>>

\* api.py lines 58-60: an exception that left index_database leaves
\* initialize (agent.py line 260 is outside the try) and is raised again by
\* the lifespan
LifespanAbort ==
    /\ ix["main"].pc = "failed"
    /\ dbCall.op = "none"
    /\ dbCall' = [NoDbCall EXCEPT !.op = "initialize", !.startup = "aborted", !.n = 1]
    /\ UNCHANGED <<dbConn, nodeVars, histVars, searchVars, ragVars, chatVars>>

StartupInit ==
    /\ source \in Sources
    /\ collection \in {{}, BuiltIndex(source)}
    /\ initialized = FALSE
    /\ ix = [p \in Procs |-> IdleCall]
    /\ prev = [p \in Procs |-> NoPrev]
    /\ NodesQuiet
    /\ ChatQuiet

\* initialize calls index_database without force_rebuild, so the clearing
\* loop of lines 145-157 is not among its steps
StartupNext ==
    \/ InitializeCall
    \/ IndexCheck("main")
    \/ IndexCount("main")
    \/ IndexExtract("main")
    \/ IndexBatch("main")
    \/ IndexFail("main")
    \/ \E counts \in SummaryCounts, fail_at \in 0..4,
          err \in {"ConnectionError", "DatabaseError"} :
          InitializeSummary(counts, fail_at, err)
    \/ LifespanAbort

SpecStartup == StartupInit /\ [][StartupNext]_vars

(***************************************************************************)
(* SpecRebuild: one forced index_database over an index built earlier,     *)
(* with searches of another caller running at any point of it.             *)
(***************************************************************************)
MidRows == 24

\* more documents than one write batch holds
SrcMid ==
    [breeds |-> [i \in 1..MidRows |->
                    BreedRow(i, "Breed", "Cattle", 1,
                             IF i % 2 = 0 THEN "dairy" ELSE "", i % 3 = 0, i % 2 = 0)],
     species |-> <<Cattle>>]

RebuildSources == {SrcSmall, SrcMid}
RebuildFilters == {"", "species"}

RebuildInit ==
    /\ source \in RebuildSources
    /\ collection = BuiltIndex(source)
    /\ initialized \in BOOLEAN
    /\ ix = [p \in Procs |-> IdleCall]
    /\ prev = [p \in Procs |-> NoPrev]
    /\ NodesQuiet
    /\ ChatQuiet

RebuildNext ==
    \/ RebuildCall
    \/ IndexStep("main")
    \/ \E f \in RebuildFilters : SearchOpen("cow", TOP_K_RESULTS, f)
    \/ IndexStep("search")
    \/ SearchBooted
    \/ SearchQuery

SpecRebuild == RebuildInit /\ [][RebuildNext]_vars

(***************************************************************************)
(* Spec: turns of conversation, one request at a time, sent to chat()      *)
(* directly or through POST /chat, while provider calls may fail.          *)
(* SpecFair adds that a request in progress is not left waiting forever.   *)
(***************************************************************************)
Init == ChatInit

Next ==
    \/ \E u \in ChatInputs, t \in Threads : ChatCall("r1", u, t)
    \/ \E m \in ChatInputs, t \in Threads, u \in Users : HttpChat("r1", m, t, u)
    \/ GraphStep("r1")
    \/ GraphFail("r1")

Spec == Init /\ [][Next]_vars

SpecFair == Spec /\ WF_vars(GraphStep("r1"))

(***************************************************************************)
(* SpecRace: two callers of chat() on the same thread, their steps         *)
(* interleaved (agent.py takes no lock around get_state and invoke).       *)
(***************************************************************************)
RaceThread == "t1"

\* the history the thread holds before the two turns
RaceHistory == Get(AfterGeneralTurns(SeedTurns), "messages", <<>>)

RaceInit ==
    /\ ChatInit
    /\ Get(checkpoint[RaceThread], "messages", <<>>) = RaceHistory

RaceNext ==
    \/ \E r \in Reqs, u \in ChatInputs : ChatCall(r, u, RaceThread)
    \/ \E r \in Reqs : GraphStep(r)

SpecRace == RaceInit /\ [][RaceNext]_vars

(***************************************************************************)
(* SpecCarry: turns of one thread, one after another, asking different     *)
(* things, so that what one turn retrieved differs from what the next one  *)
(* retrieves.                                                              *)
(***************************************************************************)
CarryInputs == {"", "cow", "beef"}

CarryNext ==
    \/ \E u \in CarryInputs : ChatCall("r1", u, "t1")
    \/ GraphStep("r1")

SpecCarry == ChatInit /\ [][CarryNext]_vars

(***************************************************************************)
(* Claims about a chat turn, checked under Spec and SpecFair.              *)
(***************************************************************************)
GraphDone(r) ==
    \/ req[r].pc \in {"end", "returned"}
    \/ req[r].pc = "responded" /\ req[r].status = 200

\* C1: when a chat turn has passed generate_response or generate_direct,
\* the messages it returns are the history H the turn started from followed
\* by exactly two turns, the user's with content user_input and then the
\* assistant's with content r, the generation provider's answer; H itself is
\* kept whole and in order, and the response field is r.
C1_TurnAppendsExchange ==
    \A r \in Reqs :
        GraphDone(r) =>
            LET st == req[r].state IN
            /\ req[r].path[Len(req[r].path)] \in {"generate", "generate_direct"}
            /\ DOMAIN st = {"user_input", "query_type", "messages", "response"}
                           \cup (DOMAIN st \cap {"context"})
            /\ st["messages"] = req[r].prior \o <<UserTurn(req[r].user_input),
                                                  AssistantTurn(req[r].gen)>>
            /\ st["response"] = req[r].gen

\* a turn on a history of more than ten messages went through retrieve and
\* generate_response
C1_Witness ==
    \E r \in Reqs :
        /\ req[r].pc = "end"
        /\ Len(req[r].prior) > 10
        /\ req[r].user_input = "cow"
        /\ req[r].gen = "moo"
        /\ req[r].path = <<"classify", "retrieve", "generate">>

LivestockPath == <<"classify", "retrieve", "generate">>
GeneralPath == <<"classify", "generate_direct">>

IsPrefix(s, t) == Len(s) <= Len(t) /\ s = SubSeq(t, 1, Len(s))

InGraph(r) == req[r].pc \in {"classify", "retrieve", "generate", "generate_direct"}

\* the nodes run so far are the start of one of the two traversals, the node
\* about to run is the next one of it, and a finished traversal is a whole one
OnTraversal(r) ==
    LET path == req[r].path
        pc == req[r].pc
    IN  /\ InGraph(r) =>
              \/ IsPrefix(Append(path, pc), LivestockPath)
              \/ IsPrefix(Append(path, pc), GeneralPath)
        /\ GraphDone(r) =>
              /\ path \in {LivestockPath, GeneralPath}
              /\ path = LivestockPath <=> req[r].state["query_type"] = "livestock"
        /\ (req[r].raised = "ProviderError") =>
              /\ path # LivestockPath /\ path # GeneralPath
              /\ IsPrefix(path, LivestockPath) \/ IsPrefix(path, GeneralPath)

\* C2: a chat turn runs classify first and once, then either retrieve and
\* then generate, or generate_direct alone, and nothing else; and when no
\* provider call raises, a turn that entered the graph reaches END.
C2_SequentialTraversal ==
    /\ [](\A r \in Reqs : OnTraversal(r))
    /\ ([](\A r \in Reqs : req[r].raised # "ProviderError"))
          => (\A r \in Reqs : [](InGraph(r) => <>(req[r].pc = "end")))

\* a turn classified general without a retrieval has returned
C2_Witness ==
    \E r \in Reqs :
        /\ req[r].pc = "returned"
        /\ req[r].path = GeneralPath
        /\ req[r].llm_calls = 1
        /\ req[r].rag_calls = 0

\* the characters of the ids the chat requests use
IdChars(name) ==
    CASE name = "u1" -> <<"u", "1">>
      [] name = "t1" -> <<"t", "1">>
      [] name = "t2" -> <<"t", "2">>
      [] OTHER -> <<>>

\* C3: a message accepted by POST /chat is answered with the response text
\* of chat(message, thread_id, user_id), and the conversation saved for
\* (user_id, thread_id) is then the history the turn started from followed
\* by the turn's two messages.
C3_EndpointContinuity ==
    \A r \in Reqs :
        (/\ req[r].via = "http"
         /\ req[r].pc = "responded"
         /\ req[r].user_input # ""
         /\ req[r].raised # "ProviderError") =>
            /\ req[r].status = 200
            /\ req[r].result = req[r].gen
            /\ get_messages(store, IdChars(req[r].user), IdChars(req[r].thread)) =
                   req[r].prior \o <<UserTurn(req[r].user_input),
                                     AssistantTurn(req[r].gen)>>

C22_ProviderErrorPropagates ==
    [][\A r \in Reqs :
          /\ (req[r].raised = "" /\ req'[r].raised = "ProviderError") =>
                /\ req'[r].pc \in {"failed", "responded"}
                /\ req'[r].pc = "responded" => req'[r].status = 500
                /\ req'[r].result = ""
                /\ req'[r].state = req[r].state
                /\ req'[r].path = req[r].path
                /\ \A i \in 1..Len(req[r].path) : req[r].path[i] # req[r].pc
                /\ Get(req'[r].state, "messages", <<>>) = req[r].prior
                /\ checkpoint' = checkpoint
          /\ (req[r].raised = "ProviderError" /\ req'[r] # req[r]) =>
                /\ req'[r].path = <<>>
                /\ req'[r].pc \in {"get_state", "responded"}
     ]_vars

\* the generation call of a livestock turn on a saved history raised
C22_Witness ==
    \E r \in Reqs :
        /\ req[r].pc = "failed"
        /\ req[r].raised = "ProviderError"
        /\ req[r].path = <<"classify", "retrieve">>
        /\ req[r].prior # <<>>
        /\ Get(checkpoint[req[r].thread], "messages", <<>>) = req[r].prior

\* C36: a completed turn has made exactly one generation call, one
\* classification call (none for an empty user_input) and at most one query
\* of the vector index, that one only when it was classified livestock; and
\* the index and its flag are touched only by the retrieval of a turn
\* classified livestock.
C36_ProviderCallsPerTurn ==
    /\ [](\A r \in Reqs :
            /\ req[r].llm_calls <= 1 /\ req[r].rag_calls <= 1 /\ req[r].gen_calls <= 1
            /\ GraphDone(r) =>
                  /\ req[r].gen_calls = 1
                  /\ req[r].llm_calls = IF req[r].user_input = "" THEN 0 ELSE 1
                  /\ req[r].rag_calls = 1 => req[r].state["query_type"] = "livestock"
                  /\ req[r].state["query_type"] = "general" => req[r].rag_calls = 0)
    /\ [][ (collection' # collection \/ initialized' # initialized) =>
              \E r \in Reqs :
                  /\ req[r].pc = "retrieve"
                  /\ req[r].state["query_type"] = "livestock"
                  /\ req'[r].rag_calls = req[r].rag_calls + 1 ]_vars

\* a turn classified livestock has returned after one call of each kind,
\* and one classified general after no query of the index
C36_Witness ==
    \E r \in Reqs :
        /\ req[r].pc = "returned"
        /\ req[r].path = LivestockPath
        /\ req[r].llm_calls = 1 /\ req[r].rag_calls = 1 /\ req[r].gen_calls = 1
        /\ collection # {}

\* the parts of a prompt that carry a retrieved context
ContextsIn(prompt) ==
    LET Carries(part) == part.context # <<>> IN SelectSeq(prompt, Carries)

\* C37: a turn's route follows the classification made in that turn; the
\* prompt of a turn routed to generate is built from the context retrieved
\* in that turn, the history the thread had and the turn's user_input; the
\* prompt of a turn routed to generate_direct is built from the history and
\* the user_input and carries no context, whatever the thread's earlier
\* turns left in the saved state.
C37_OnlyMessagesCarryOver ==
    \A r \in Reqs :
        GraphDone(r) =>
            LET fresh == [user_input |-> req[r].user_input, messages |-> req[r].prior]
            IN  /\ req[r].path = LivestockPath <=> req[r].classified = "livestock"
                /\ req[r].path = LivestockPath =>
                      /\ req[r].rag_calls = 1
                      /\ req[r].prompt = generate_response_prompt(
                             Merge(fresh, [context |-> req[r].retrieved]))
                      /\ \A i \in 1..Len(ContextsIn(req[r].prompt)) :
                            ContextsIn(req[r].prompt)[i].context = req[r].retrieved
                /\ req[r].path = GeneralPath =>
                      /\ req[r].prompt = generate_direct_prompt(fresh)
                      /\ ContextsIn(req[r].prompt) = <<>>
                /\ req[r].state["response"] = req[r].gen

\* on a thread whose saved state holds the context, query_type and response
\* of an earlier livestock turn, a turn retrieved another context and used
\* it
C37_Witness ==
    \E r \in Reqs :
        /\ GraphDone(r)
        /\ req[r].path = LivestockPath
        /\ Len(req[r].prior) = 2
        /\ req[r].prior[1].content # req[r].user_input
        /\ req[r].retrieved # <<>>
        /\ ContextsIn(req[r].prompt) # <<>>
        /\ \E other \in CarryInputs \ {req[r].user_input} :
              /\ req[r].prior[1].content = other
              /\ get_context_for_query(format_results(
                     FindNearest(collection, QueryEmbed(other), TOP_K_RESULTS)))
                    # req[r].retrieved

\* a turn classified general ran on a thread whose saved state held the
\* context of an earlier turn
CarryGeneralAfterLivestock ==
    \E r \in Reqs :
        /\ GraphDone(r)
        /\ req[r].path = GeneralPath
        /\ Get(req[r].state, "context", <<>>) # <<>>
        /\ ContextsIn(req[r].prompt) = <<>>

(***************************************************************************)
(* Claims about concurrent turns, checked under SpecRace.                  *)
(***************************************************************************)
RaceSaved == Get(checkpoint[RaceThread], "messages", <<>>)

\* the messages are user and assistant turns two by two
WholePairs(messages) ==
    /\ Len(messages) % 2 = 0
    /\ \A i \in 1..Len(messages) :
          messages[i].role = (IF i % 2 = 1 THEN "user" ELSE "assistant")

Turn(r) == <<UserTurn(req[r].user_input), AssistantTurn(req[r].gen)>>

\* C23: with two turns of the same thread interleaved, the saved history is
\* always the history H the thread started with followed by whole
\* user/assistant pairs, at most one pair per turn made, and what a finished
\* turn returned is what it read followed by its own pair.  (That the pair
\* of one of two finished turns can be missing is C23_Witness.)
C23_LastWriterWins ==
    /\ IsPrefix(RaceHistory, RaceSaved)
    /\ WholePairs(SubSeq(RaceSaved, Len(RaceHistory) + 1, Len(RaceSaved)))
    /\ Len(RaceSaved) <= Len(RaceHistory) + 2 * turns
    /\ \A r \in Reqs :
          req[r].pc \in {"end", "returned"} =>
              Get(req[r].state, "messages", <<>>) = req[r].prior \o Turn(r)
    /\ (\A r \in Reqs : req[r].pc = "returned") =>
          \E r \in Reqs : RaceSaved = req[r].prior \o Turn(r)

\* both turns read H and returned; the saved history is H and the pair of
\* one of them only
C23_Witness ==
    /\ \A r \in Reqs : req[r].pc = "returned" /\ req[r].prior = RaceHistory
    /\ req["r1"].user_input # req["r2"].user_input
    /\ RaceSaved = RaceHistory \o Turn("r2")
    /\ RaceSaved # RaceHistory \o Turn("r1")

(***************************************************************************)
(* Claims about the node functions, checked under SpecNodes.               *)
(***************************************************************************)
InputEmptyOrMissing(state) ==
    "user_input" \notin DOMAIN state \/ state["user_input"] = ""

\* C8: for an empty or missing user_input, classify_query returns
\* query_type = general and makes no call to the language model.
C8_EmptyInputGeneralNoLLM ==
    (nodeCall.node = "classify_query" /\ InputEmptyOrMissing(nodeIn))
        => /\ nodeCall.llm_calls = 0
           /\ "raised" \notin DOMAIN nodeCall
           /\ nodeCall.out = [query_type |-> "general"]

C8_Witness ==
    /\ nodeCall.node = "classify_query"
    /\ "user_input" \notin DOMAIN nodeIn
    /\ nodeCall.llm_calls = 0
    /\ nodeCall.out = [query_type |-> "general"]

\* The stripped, lower-cased answer, stated by positions: the characters
\* from the first to the last one that is not whitespace, each lower-cased.
StrippedLowered(raw) ==
    LET solid == {i \in 1..Len(raw) : raw[i] \notin Whitespace} IN
    IF solid = {} THEN <<>>
    ELSE LET lo == CHOOSE i \in solid : \A j \in solid : i <= j
             hi == CHOOSE i \in solid : \A j \in solid : j <= i
         IN  [k \in 1..(hi - lo + 1) |-> LowerChar(raw[lo + k - 1])]

HasLivestock(raw) ==
    LET t == StrippedLowered(raw) IN
    \E i \in 1..Len(t) :
        /\ i + Len(LIVESTOCK) - 1 <= Len(t)
        /\ \A k \in 1..Len(LIVESTOCK) : t[i + k - 1] = LIVESTOCK[k]

C10_RouteExactLivestock ==
    nodeCall.node = "route_query"
        => /\ nodeCall.out \in {"retrieve", "generate_direct"}
           /\ nodeCall.out = "retrieve" <=>
                ("query_type" \in DOMAIN nodeIn /\ nodeIn["query_type"] = "livestock")

C10_Witness ==
    /\ nodeCall.node = "route_query"
    /\ "query_type" \in DOMAIN nodeIn
    /\ nodeIn["query_type"] = "Livestock"
    /\ nodeCall.out = "generate_direct"

\* C11: with user_input empty or missing, classify_query answers general
\* without asking the language model, and retrieve_context returns the empty
\* context without calling the index: no embedding is computed and the
\* collection is neither read nor written.
C11_EmptyInputNoProvider ==
    InputEmptyOrMissing(nodeIn) =>
        /\ nodeCall.node = "classify_query" =>
              /\ nodeCall.llm_calls = 0
              /\ nodeCall.out = [query_type |-> "general"]
        /\ nodeCall.node = "retrieve_context" =>
              /\ nodeCall.rag_calls = 0
              /\ nodeCall.embed_calls = 0
              /\ nodeCall.out = [context |-> <<>>]
              /\ collection = {}
              /\ initialized = FALSE

C11_Witness ==
    /\ "user_input" \notin DOMAIN nodeIn
    /\ nodeCall.node = "retrieve_context"
    /\ nodeCall.out = [context |-> <<>>]

Generated == nodeCall.node \in {"generate_response", "generate_direct"}

HasContextBlock(prompt) ==
    \E i \in 1..Len(prompt) :
        prompt[i].kind = "\n--- DATABASE CONTEXT ---\n{context}\n--- END CONTEXT ---\n"

\* C19: the prompt of generate_response carries a context block only when
\* there is context: not when the context is empty or missing, and not when
\* it is the "No relevant information found in the database." sentinel of a
\* retrieval that found nothing; the prompt of generate_direct never
\* carries one.
C19_ContextBlockOnlyWithContext ==
    LET context == Get(nodeIn, "context", <<>>)
        sentinel == <<Line("No relevant information found in the database.",
                           0, <<>>, "")>>
    IN  /\ nodeCall.node = "generate_response" =>
              (HasContextBlock(nodeCall.prompt)
                  <=> (context # <<>> /\ context # sentinel))
        /\ nodeCall.node = "generate_direct" => ~HasContextBlock(nodeCall.prompt)

\* C20: with n messages in the state, the prompt of either generation node
\* shows the last min(n, 10) of them, in their order, and then the current
\* user turn as its last part; the messages the node returns are all n
\* messages followed by the user's turn and the assistant's.
C20_PromptWindowFullHistory ==
    Generated =>
        LET messages == Get(nodeIn, "messages", <<>>)
            user_input == Get(nodeIn, "user_input", "")
            prompt == nodeCall.prompt
            n == Len(messages)
            m == IF n < 10 THEN n ELSE 10
            IsTurn(part) == part.kind = "{role}: {content}"
            shown == SelectSeq(prompt, IsTurn)
            last == Len(prompt)
        IN  /\ Len(shown) = m
            /\ last >= m + 1
            /\ prompt[last].kind = "\nUser: {user_input}\n\nAssistant:"
            /\ prompt[last].content = user_input
            /\ \A i \in 1..m :
                  /\ IsTurn(prompt[last - m - 1 + i])
                  /\ prompt[last - m - 1 + i].content = messages[n - m + i].content
                  /\ prompt[last - m - 1 + i].role =
                        (IF messages[n - m + i].role = "user"
                         THEN "User" ELSE "Assistant")
            /\ "out" \in DOMAIN nodeCall =>
                  /\ Len(nodeCall.out.messages) = n + 2
                  /\ SubSeq(nodeCall.out.messages, 1, n) = messages
                  /\ nodeCall.out.messages[n + 1] = UserTurn(user_input)
                  /\ nodeCall.out.messages[n + 2] =
                        AssistantTurn(nodeCall.out.response)

\* generate_response answered on a history longer than the prompt shows
C20_Witness ==
    /\ nodeCall.node = "generate_response"
    /\ "out" \in DOMAIN nodeCall
    /\ Len(Get(nodeIn, "messages", <<>>)) > 10
    /\ Len(nodeCall.out.messages) = Len(Get(nodeIn, "messages", <<>>)) + 2
    /\ Len(nodeCall.prompt) < Len(Get(nodeIn, "messages", <<>>)) + 2

(***************************************************************************)
(* Claims about index_database, checked under SpecIndex.                   *)
(***************************************************************************)
Main == ix["main"]
PrevMain == prev["main"]

\* the last two calls were both index_database(force_rebuild=False) and
\* both returned
TwoUnforcedInARow ==
    /\ PrevMain.pc = "returned" /\ ~PrevMain.force
    /\ Main.pc = "returned" /\ ~Main.force

\* C4 as stated: of two non-forced calls in a row the second makes no
\* extraction, embedding, delete or write call and returns what the first
\* returned.
C4_SecondCallIdle ==
    TwoUnforcedInARow => Work(Main) = 0 /\ Main.ret = PrevMain.ret

\* C4 amended: when the first of two non-forced calls in a row left at least
\* one document stored, the second makes no extraction, embedding, delete
\* or write call, leaves the collection as it was and returns the number of
\* stored documents (0 when the count cannot be determined).
C4_SecondCallIdleWhenIndexed ==
    (TwoUnforcedInARow /\ PrevMain.left > 0)
        => /\ Work(Main) = 0
           /\ collection = Main.before
           /\ Cardinality(collection) = PrevMain.left
           /\ Main.ret = IF Main.count = -1 THEN 0 ELSE PrevMain.left

C4_Witness ==
    /\ TwoUnforcedInARow
    /\ PrevMain.work > 0 /\ PrevMain.ret > 0
    /\ PrevMain.left = PrevMain.ret
    /\ Work(Main) = 0
    /\ Main.ret = PrevMain.ret

\* the call took the early return of a non-forced index_database
EarlyReturned ==
    /\ Main.pc = "returned"
    /\ ~Main.force
    /\ Main.before # {}

\* C25: the count step of index_database never ends in an exception; a
\* non-forced call that found the store indexed returns with the system
\* marked initialized, having got the number of stored documents or -1, and
\* returns that number, or 0 for -1: never a negative number.
C25_CountNeverRaises ==
    /\ [](EarlyReturned =>
              /\ initialized
              /\ Main.count \in {-1, Cardinality(collection)}
              /\ Main.ret = (IF Main.count = -1 THEN 0 ELSE Cardinality(collection))
              /\ Main.ret >= 0
              /\ collection = Main.before)
    /\ [][Main.pc = "count" => ix'["main"].pc \in {"count", "returned"}]_vars

\* the count could not be determined and the call returned 0
C25_Witness ==
    /\ EarlyReturned
    /\ Main.count = -1
    /\ Main.ret = 0
    /\ Cardinality(collection) > 0
    /\ initialized

\* the call before failed between two write batches, and this one is a
\* non-forced call that returned
AfterPartialBuild ==
    /\ PrevMain.pc = "failed"
    /\ PrevMain.written >= 1
    /\ Main.pc = "returned"
    /\ ~Main.force

\* C26 as stated: after a rebuild that failed part-way the store holds fewer
\* documents than were extracted, and a following non-forced index_database
\* returns without any extraction, embedding or write, leaves the index as
\* it is and returns that smaller count.
C26_PartialIndexAsCount ==
    AfterPartialBuild =>
        /\ PrevMain.left > 0
        /\ PrevMain.left < PrevMain.extracted
        /\ Main.embed_calls = 0
        /\ Work(Main) = 0
        /\ collection = Main.before
        /\ Cardinality(collection) = PrevMain.left
        /\ Main.ret = PrevMain.left

\* C26 amended: the same, where the call returns that smaller count when
\* the count query answers and 0 when the count cannot be determined.
C26_PartialIndexAsCountOrZero ==
    AfterPartialBuild =>
        /\ PrevMain.left > 0
        /\ PrevMain.left < PrevMain.extracted
        /\ Main.embed_calls = 0
        /\ Work(Main) = 0
        /\ collection = Main.before
        /\ Cardinality(collection) = PrevMain.left
        /\ Main.ret = (IF Main.count = -1 THEN 0 ELSE PrevMain.left)

\* two of the write batches were committed before the failure, and the next
\* non-forced call returned their 40 documents as the count
C26_Witness ==
    /\ AfterPartialBuild
    /\ PrevMain.written = 2
    /\ PrevMain.left = 2 * BATCH_SIZE
    /\ PrevMain.extracted > 2 * BATCH_SIZE
    /\ Main.ret = PrevMain.left
    /\ Work(Main) = 0

DocTypes == {"breed", "species"}
SourceKeys == 1..BigRows
IdsByType == [t \in DocTypes |-> {DocId(t, k) : k \in SourceKeys}]

\* C5: in every reachable state there is at most one stored document per
\* (type, primary key): each document is stored under breed_<key> or
\* species_<key> of its type, no two stored documents share an id, and
\* distinct (type, key) pairs have distinct ids.
C5_OneDocumentPerKey ==
    /\ \A d \in collection : d.id \in IdsByType[d.type]
    /\ \A d, e \in collection : d.id = e.id => d = e
    /\ IdsByType["breed"] \cap IdsByType["species"] = {}
    /\ \A t \in DocTypes : Cardinality(IdsByType[t]) = Cardinality(SourceKeys)

\* a commit wrote a row whose id was already stored, and the rebuild ended
C5_Witness ==
    /\ Main.pc = "returned"
    /\ Main.overwritten > 0
    /\ Cardinality(collection) < Main.total_indexed
    /\ \A d, e \in collection : d.id = e.id => d = e

\* the index a rebuild that extracted `documents` is to leave: per id, the
\* stored form of the last extracted document with that id
LastOfId(documents) ==
    {i \in 1..Len(documents) :
        \A j \in (i + 1)..Len(documents) : documents[j].id # documents[i].id}
IndexOf(documents) == {Stored(documents[i]) : i \in LastOfId(documents)}

\* C6: after a rebuild that failed part-way, a forced rebuild that completes
\* leaves the index holding exactly the documents it extracted from the
\* source, whatever the failed rebuild left behind.
C6_ForcedRetryRestores ==
    (PrevMain.pc = "failed" /\ Main.pc = "returned" /\ Main.force)
        => /\ collection = IndexOf(Main.documents)
           /\ Main.documents = <<>> => collection = {}

\* the failed rebuild left a partly built index that differs from the final one
C6_Witness ==
    /\ PrevMain.pc = "failed" /\ PrevMain.work > 0
    /\ Main.pc = "returned" /\ Main.force
    /\ Main.before # {}
    /\ Main.before \ collection # {}
    /\ collection \ Main.before # {}
    /\ collection = IndexOf(Main.documents)

CeilDiv(a, b) == (a + b - 1) \div b

\* C7: in a forced rebuild (run alone) the clearing loop ends, after at
\* most one commit per 100 documents, with the collection empty, before any
\* row is extracted or any embedding requested; after the rebuild the index
\* holds exactly the documents of the rows it extracted, and none of a row
\* that is no longer in the source.
C7_ClearBeforeBuild ==
    Main.force =>
        /\ Main.pc = "delete" =>
              /\ Main.db_calls = 0 /\ Main.embed_calls = 0 /\ Main.write_commits = 0
              /\ Cardinality(collection) = Cardinality(Main.before) - Main.deleted_count
              /\ Main.delete_commits = CeilDiv(Main.deleted_count, DELETE_LIMIT)
        /\ Main.pc = "extract" =>
              /\ collection = {}
              /\ Main.db_calls = 0 /\ Main.embed_calls = 0 /\ Main.write_commits = 0
              /\ Main.delete_commits = CeilDiv(Cardinality(Main.before), DELETE_LIMIT)
        /\ Main.pc = "embed" => collection \subseteq IndexOf(Main.documents)
        /\ Main.pc = "returned" =>
              /\ collection = IndexOf(Main.documents)
              /\ \A d \in collection : \E i \in 1..Len(Main.documents) :
                    Main.documents[i].id = d.id

\* a forced rebuild cleared more than one chunk, among it documents of rows
\* that are gone from the source, and completed
C7_Witness ==
    /\ Main.force /\ Main.pc = "returned"
    /\ Main.delete_commits >= 2
    /\ Main.documents # <<>>
    /\ \E d \in Main.before : \A e \in collection : e.id # d.id
    /\ collection = IndexOf(Main.documents)

\* the ids of the stored documents
IdsIn(coll) == {d.id : d \in coll}

\* the last call built the index and returned a count above 0
BuiltAndReturned ==
    /\ Main.pc = "returned"
    /\ Main.write_commits > 0
    /\ Main.ret > 0

\* the call before built the index, and the last one, not forced, returned
\* the count it read
CountedAfterBuild ==
    /\ PrevMain.pc = "returned" /\ PrevMain.written > 0 /\ PrevMain.ret > 0
    /\ Main.pc = "returned" /\ ~Main.force /\ Main.write_commits = 0
    /\ Main.count >= 0

\* C34: after an index_database call that built the index and returned
\* n > 0 the index holds exactly n documents, and a following non-forced
\* call returns n.
C34_CountIsIndexSize ==
    /\ BuiltAndReturned => Cardinality(collection) = Main.ret
    /\ CountedAfterBuild => Main.ret = PrevMain.ret

\* the same for a build whose extracted documents have different ids
CountIsIndexSizeForDistinctIds ==
    /\ (BuiltAndReturned /\ Main.overwritten = 0) => Cardinality(collection) = Main.ret
    /\ (CountedAfterBuild /\ PrevMain.left = PrevMain.ret) => Main.ret = PrevMain.ret

\* C32: within one index_database call the collection changes only in
\* commits; a deletion commit removes between 1 and 100 stored documents
\* and nothing else; a write commit follows one embedding request, stores
\* the next at most 20 extracted documents in source order and nothing
\* else, and leaves total_indexed equal to the number of documents
\* submitted so far.
C32_BatchBounds ==
    [][ (Main.pc \in {"check", "count", "delete", "extract", "embed"}) =>
          LET after == ix'["main"]
              deletes == after.delete_commits - Main.delete_commits
              writes == after.write_commits - Main.write_commits
              n == after.total_indexed - Main.total_indexed
              batch == {Main.total_indexed + j : j \in 1..n}
          IN  /\ deletes \in {0, 1} /\ writes \in {0, 1} /\ deletes + writes <= 1
              /\ deletes + writes = 0 =>
                    /\ collection' = collection
                    /\ Main.pc = "embed" => n = 0
              /\ deletes = 1 =>
                    /\ collection' \subseteq collection
                    /\ Cardinality(collection \ collection') \in 1..100
                    /\ Cardinality(collection \ collection')
                          = after.deleted_count - Main.deleted_count
              /\ after.embed_calls - Main.embed_calls = writes
              /\ writes = 1 =>
                    /\ n \in 1..20
                    /\ Main.total_indexed = Main.i
                    /\ after.total_indexed = Min(Main.i + 20, Len(Main.documents))
                    /\ after.documents = Main.documents
                    /\ IdsIn(collection') =
                          IdsIn(collection) \cup {Main.documents[j].id : j \in batch}
                    /\ \A d \in collection' :
                          \/ d \in collection
                          \/ \E j \in batch : d = Stored(Main.documents[j])
                    /\ \A j \in batch :
                          \/ Stored(Main.documents[j]) \in collection'
                          \/ \E k \in batch :
                                k > j /\ Main.documents[k].id = Main.documents[j].id
                    /\ \A d \in collection \ collection' :
                          \E j \in batch : Main.documents[j].id = d.id
    ]_vars

\* a forced rebuild that cleared two chunks has committed its third batch
\* of 20 and has more to write
C32_Witness ==
    /\ Main.force /\ Main.pc = "embed"
    /\ Main.delete_commits = 2
    /\ Main.deleted_count > 100
    /\ Main.write_commits = 3
    /\ Main.total_indexed = 60
    /\ Cardinality(collection) = 60

(***************************************************************************)
(* Claims about the conversation store, checked under SpecStore.  A thread *)
(* exists when a document is stored under the id of its (user, thread).    *)
(***************************************************************************)
CallId == get_doc_id(storeCall.user, storeCall.thread)

SamePairAsLast ==
    /\ storeCall.last.user = storeCall.user
    /\ storeCall.last.thread = storeCall.thread

RoleContent(messages) ==
    [i \in 1..Len(messages) |->
        [role |-> messages[i].role, content |-> messages[i].content]]

\* C12: get_messages(u, t) right after save_messages(u, t, turns) returns as
\* many turns as were given, in the same order, each with the given role and
\* content and nothing else; and every turn a save stores carries a
\* timestamp, the caller's when the turn had one and the save time otherwise.
C12_SaveGetRoundTrip ==
    /\ (storeCall.op = "get" /\ storeCall.last.op = "save" /\ SamePairAsLast) =>
          /\ Len(storeCall.got) = Len(storeCall.last.given)
          /\ storeCall.got = RoleContent(storeCall.last.given)
          /\ \A i \in 1..Len(storeCall.got) :
                DOMAIN storeCall.got[i] = {"role", "content"}
    /\ storeCall.op = "save" =>
          /\ CallId \in DOMAIN store
          /\ Len(store[CallId].messages) = Len(storeCall.given)
          /\ \A i \in 1..Len(storeCall.given) :
                LET m == store[CallId].messages[i]
                    g == storeCall.given[i]
                IN  /\ DOMAIN m = {"role", "content", "timestamp"}
                    /\ m.role = g.role
                    /\ m.content = g.content
                    /\ m.timestamp = IF "timestamp" \in DOMAIN g THEN g.timestamp
                                     ELSE IsoZ(storeCall.now)

\* a read right after a save of two turns, the first with the caller's own
\* timestamp, onto a thread that held other turns
C12_Witness ==
    /\ storeCall.op = "get"
    /\ storeCall.last.op = "save"
    /\ SamePairAsLast
    /\ Len(storeCall.got) = 2
    /\ "timestamp" \in DOMAIN storeCall.last.given[1]
    /\ store[CallId].created_at < store[CallId].updated_at

\* C13: delete_thread on a stored thread removes it and returns true, and a
\* read of it then returns the empty sequence; delete_thread on a thread
\* that is not stored returns false, issues no delete and leaves the store
\* as it was; get_messages on a thread that is not stored returns the empty
\* sequence.
C13_DeleteAndMissing ==
    /\ storeCall.op = "delete" =>
          IF CallId \in DOMAIN storeCall.before
          THEN /\ storeCall.deleted = TRUE
               /\ store = Without(storeCall.before, CallId)
               /\ get_messages(store, storeCall.user, storeCall.thread) = <<>>
          ELSE /\ storeCall.deleted = FALSE
               /\ storeCall.deletes = 0
               /\ store = storeCall.before
    /\ (storeCall.op = "get" /\ CallId \notin DOMAIN storeCall.before) =>
          storeCall.got = <<>>
    /\ (storeCall.op = "get" /\ storeCall.last.op = "delete" /\ SamePairAsLast) =>
          storeCall.got = <<>>

\* a thread with turns was deleted while another thread stayed stored
C13_Witness ==
    /\ storeCall.op = "delete"
    /\ storeCall.deleted
    /\ CallId \in DOMAIN storeCall.before
    /\ storeCall.before[CallId].message_count > 0
    /\ DOMAIN store # {}

\* C14: a save on a thread that is not stored creates it with created_at =
\* updated_at; a save on a stored thread puts the given turns in place of
\* the stored ones, moves updated_at forward and keeps created_at, user_id
\* and thread_id; and message_count is always the number of stored turns.
C14_ThreadLifecycle ==
    /\ \A id \in DOMAIN store :
          store[id].message_count = Len(store[id].messages)
    /\ storeCall.op = "save" =>
          /\ CallId \in DOMAIN store
          /\ RoleContent(store[CallId].messages) = RoleContent(storeCall.given)
          /\ store[CallId].updated_at = storeCall.now
          /\ \A id \in DOMAIN storeCall.before \ {CallId} :
                id \in DOMAIN store /\ store[id] = storeCall.before[id]
          /\ IF CallId \in DOMAIN storeCall.before
             THEN /\ store[CallId].updated_at > storeCall.before[CallId].updated_at
                  /\ store[CallId].created_at = storeCall.before[CallId].created_at
                  /\ store[CallId].user_id = storeCall.before[CallId].user_id
                  /\ store[CallId].thread_id = storeCall.before[CallId].thread_id
             ELSE /\ store[CallId].created_at = store[CallId].updated_at
                  /\ store[CallId].user_id = storeCall.user
                  /\ store[CallId].thread_id = storeCall.thread

\* a stored thread of three turns was saved again with one turn
C14_Witness ==
    /\ storeCall.op = "save"
    /\ CallId \in DOMAIN storeCall.before
    /\ storeCall.before[CallId].message_count = 3
    /\ store[CallId].message_count = 1

(***************************************************************************)
(* Claims about Database.execute, checked under SpecDb.                    *)
(***************************************************************************)
ReadsOnlyAllowed(query) == query.reads \subseteq allowed_tables

\* C15: a query that reads a table outside the allow-list fails with
\* PermissionError without the connection being opened or the query being
\* sent; a query that reads allow-listed tables only, whatever the case of
\* their names, is not refused.
C15_AllowListEnforced ==
    dbCall.op = "execute" =>
        IF ReadsOnlyAllowed(dbCall.query)
        THEN dbCall.raised # "PermissionError"
        ELSE /\ dbCall.raised = "PermissionError"
             /\ ~dbCall.sent
             /\ dbCall.connects = 0

\* the pair that created the document the last call worked on is the
\* call's pair
OwnThread(docs) ==
    /\ docs[CallId].user_id = storeCall.user
    /\ docs[CallId].thread_id = storeCall.thread

\* C33: a stored thread belongs to one (user_id, thread_id) pair: a read
\* returns turns only from the thread its own pair created, and a save or
\* a delete replaces or removes only the thread its own pair created.
C33_PairsNeverShareAThread ==
    /\ (storeCall.op = "get" /\ storeCall.got # <<>>) => OwnThread(storeCall.before)
    /\ (storeCall.op = "save" /\ CallId \in DOMAIN storeCall.before) =>
          OwnThread(storeCall.before)
    /\ (storeCall.op = "delete" /\ storeCall.deleted) => OwnThread(storeCall.before)

\* the threads stored before the last call by a pair other than the call's
OtherThreads ==
    {id \in DOMAIN storeCall.before :
        \/ storeCall.before[id].user_id # storeCall.user
        \/ storeCall.before[id].thread_id # storeCall.thread}

KeptAsBefore(id) ==
    /\ id \in DOMAIN store
    /\ store[id].messages = storeCall.before[id].messages
    /\ store[id].message_count = storeCall.before[id].message_count
    /\ store[id].created_at = storeCall.before[id].created_at
    /\ store[id].updated_at = storeCall.before[id].updated_at

\* C38: save_messages or delete_thread for (u, t) leaves the turns,
\* message_count, created_at and updated_at of every thread stored by
\* another pair unchanged, and get_messages never modifies the store.
C38_OtherThreadsUnchanged ==
    /\ storeCall.op \in {"save", "delete"} =>
          \A id \in OtherThreads : KeptAsBefore(id)
    /\ storeCall.op = "get" => store = storeCall.before

\* what holds: a call leaves the documents stored under other ids than its
\* own as they were, and a read leaves every document as it was
OtherDocumentsUnchanged ==
    /\ storeCall.op \in {"save", "delete"} =>
          \A id \in DOMAIN storeCall.before \ {CallId} :
              id \in DOMAIN store /\ store[id] = storeCall.before[id]
    /\ storeCall.op = "get" => store = storeCall.before

\* what holds: a step of a chat turn on a thread reads that thread's saved
\* state only, leaves the saved state of every other thread as it was, and
\* never touches the conversation store
ChatTurnKeepsOtherThreads ==
    [][\A r \in Reqs :
          /\ \A t \in Threads \ {req'[r].thread} :
                (\A q \in Reqs \ {r} : req'[q] = req[q]) =>
                    checkpoint'[t] = checkpoint[t]
          /\ (req[r].pc = "get_state" /\ req'[r].pc = "invoke") =>
                req'[r].prior = Get(checkpoint[req[r].thread], "messages", <<>>)
          /\ store' = store
    ]_vars

(***************************************************************************)
(* Claims about search and get_context_for_query, checked under            *)
(* SpecSearch.                                                             *)
(***************************************************************************)
SearchReturned == searchCall.op # "none" /\ searchCall.raised = ""

\* C16: search(query, k, type_filter) returns at most k results, each a
\* different document of the index; with a type filter every result has that
\* type; the results come best match first by cosine similarity to the
\* query's embedding, and no document left out (of the filter's type) is a
\* better match than one returned.
C16_SearchTopK ==
    SearchReturned =>
        LET found == searchCall.found
            q == QueryEmbed(searchCall.query)
            eligible == {d \in searchCall.index :
                            searchCall.filter = "" \/ d.type = searchCall.filter}
        IN  /\ Len(found) <= searchCall.k
            /\ Len(found) = Len(searchCall.results)
            /\ \A i \in 1..Len(found) :
                  /\ found[i] \in searchCall.index
                  /\ searchCall.filter # "" => found[i].type = searchCall.filter
                  /\ searchCall.results[i].content = found[i].content
                  /\ searchCall.results[i].type = found[i].type
                  /\ searchCall.results[i].metadata = found[i].metadata
            /\ \A i, j \in 1..Len(found) :
                  i < j => /\ found[i] # found[j]
                           /\ ~Closer(q, found[j].embedding, found[i].embedding)
            /\ \A d \in eligible :
                  (\A i \in 1..Len(found) : found[i] # d) =>
                      /\ Len(found) = searchCall.k
                      /\ \A i \in 1..Len(found) :
                            ~Closer(q, d.embedding, found[i].embedding)

\* two breeds were returned out of more, from an index that also holds a
\* species document
C16_Witness ==
    /\ SearchReturned
    /\ searchCall.op = "search"
    /\ searchCall.filter = "breed"
    /\ Len(searchCall.found) = 2
    /\ Cardinality({d \in searchCall.index : d.type = "breed"}) > 2
    /\ \E d \in searchCall.index : d.type = "species"

\* C17: the first search made against a collection without documents runs a
\* non-forced index_database before its nearest-neighbour query; a search on
\* a collection that holds documents runs no rebuild, no extraction and no
\* write.
C17_LazyBootstrap ==
    SearchReturned =>
        /\ (searchCall.unindexed /\ ~searchCall.seen) => searchCall.rebuilt
        /\ ~searchCall.unindexed =>
              /\ ~searchCall.rebuilt
              /\ searchCall.db_calls = 0
              /\ searchCall.writes = 0
              /\ searchCall.index = searchCall.before

\* C18: get_context_for_query searches with k = 10 and no filter; without
\* results it returns the sentinel line, never the empty text; with results
\* it returns the header line and then, for each result in search order, its
\* numbered content, its type and an empty line, for at most 10 results.
C18_ContextText ==
    (SearchReturned /\ searchCall.op = "context") =>
        LET results == searchCall.results
            context == searchCall.context
        IN  /\ searchCall.k = TOP_K_RESULTS
            /\ searchCall.filter = ""
            /\ Len(results) <= TOP_K_RESULTS
            /\ context # <<>>
            /\ IF results = <<>>
               THEN context = <<Line("No relevant information found in the database.",
                                     0, <<>>, "")>>
               ELSE /\ Len(context) = 1 + 3 * Len(results)
                    /\ context[1] =
                          Line("Relevant information from the livestock database:\n",
                               0, <<>>, "")
                    /\ \A i \in 1..Len(results) :
                          /\ context[3 * i - 1] =
                                Line("{i}. {content}", i, results[i].content, "")
                          /\ context[3 * i] =
                                Line("   (Type: {type})", 0, <<>>, results[i].type)
                          /\ context[3 * i + 1] = Line("", 0, <<>>, "")

\* an index of more than ten documents gave a context of ten results
C18_Witness ==
    /\ SearchReturned
    /\ searchCall.op = "context"
    /\ Cardinality(searchCall.index) > TOP_K_RESULTS
    /\ Len(searchCall.context) = 1 + 3 * TOP_K_RESULTS

\* C35: while the data source has at least one row, a search that returns
\* has run its nearest-neighbor query on an index that holds documents.
C35_NeverQueriesEmptyIndex ==
    (SearchReturned /\ extract_documents(source) # <<>>) => searchCall.index # {}

\* the same for a search made while _initialized is not set
UnflaggedSearchQueriesBuiltIndex ==
    (SearchReturned /\ ~searchCall.flagged /\ extract_documents(source) # <<>>) =>
        searchCall.index # {}

(***************************************************************************)
(* Claims about a search next to a forced rebuild, checked under           *)
(* SpecRebuild.                                                            *)
(***************************************************************************)
Queried ==
    /\ searchCall.op = "search"
    /\ searchCall.pc = "idle"
    /\ searchCall.raised = ""

\* C24: a search whose query runs after the forced rebuild has returned
\* sees the collection holding exactly the documents that rebuild extracted;
\* a search whose query runs earlier sees a subset of the documents of the
\* old and the new index.  (That a strict, non-empty subset can be seen is
\* C24_Witness.)
C24_RebuildSelfHeals ==
    Queried =>
        /\ searchCall.rebuild = "returned" =>
              /\ searchCall.index = IndexOf(Main.documents)
              /\ searchCall.index = BuiltIndex(source)
        /\ searchCall.index \subseteq BuiltIndex(source)
        /\ \A i \in 1..Len(searchCall.found) : searchCall.found[i] \in searchCall.index

\* the query ran between two write batches of the rebuild and saw a part of
\* the documents
C24_Witness ==
    /\ Queried
    /\ searchCall.rebuild = "embed"
    /\ searchCall.index # {}
    /\ searchCall.index # BuiltIndex(source)
    /\ searchCall.index \subseteq BuiltIndex(source)
    /\ Len(searchCall.found) = TOP_K_RESULTS

(***************************************************************************)
(* Claims about the document texts, checked under SpecFormat.              *)
(***************************************************************************)
\* the parts of a content with the given label
PartsOf(content, label) ==
    LET Has(part) == part[1] = label IN SelectSeq(content, Has)

\* the first n items, or all of them when there are fewer
FirstItems(items, n) ==
    [i \in 1..(IF Len(items) < n THEN Len(items) ELSE n) |-> items[i]]

\* the list part of a content is absent for no item and otherwise one part
\* holding the first n items in their order
ListsFirst(content, label, items, n) ==
    IF items = <<>> THEN PartsOf(content, label) = <<>>
    ELSE PartsOf(content, label) = <<<<label, FirstItems(items, n)>>>>

\* C27: the species content lists the first min(c, 20) colors, the first
\* min(p, 20) patterns and the first min(g, 15) categories, in source order
\* and in that order of segments at the end of the content; nothing stands
\* for the items left out, and an empty list gives no segment.
C27_SpeciesListsTruncated ==
    nodeCall.node = "format_species_document" =>
        LET out == nodeCall.out
            lists == <<"Available colors", "Available patterns", "Categories">>
            IsList(part) == \E i \in 1..3 : part[1] = lists[i]
            present == SelectSeq(out, IsList)
        IN  /\ ListsFirst(out, "Available colors", nodeIn.colors, 20)
            /\ ListsFirst(out, "Available patterns", nodeIn.patterns, 20)
            /\ ListsFirst(out, "Categories", nodeIn.categories, 15)
            /\ present = SubSeq(out, Len(out) - Len(present) + 1, Len(out))
            /\ \A i, j \in 1..Len(present) :
                  i < j => \E a, b \in 1..3 :
                              a < b /\ present[i][1] = lists[a] /\ present[j][1] = lists[b]

\* 25 colors gave 20, 16 categories gave 15, and no pattern gave no segment
C27_Witness ==
    /\ nodeCall.node = "format_species_document"
    /\ Len(nodeIn.colors) = MaxItems
    /\ nodeIn.patterns = <<>>
    /\ Len(nodeIn.categories) = 16
    /\ Len(PartsOf(nodeCall.out, "Available colors")[1][2]) = 20
    /\ Len(PartsOf(nodeCall.out, "Categories")[1][2]) = 15
    /\ PartsOf(nodeCall.out, "Available patterns") = <<>>

\* C28: the breed content is the segments Breed, Species, Description and
\* Purpose in that order, Species and Description left out when the field
\* is empty or null, Purpose left out when no flag is set and otherwise
\* listing the set flags' purposes in the order meat, milk, wool, egg,
\* working.
C28_BreedComposition ==
    nodeCall.node = "format_breed_document" =>
        LET out == nodeCall.out
            flags == <<nodeIn.MeatBreed, nodeIn.MilkBreed, nodeIn.WoolBreed,
                       nodeIn.EggBreed, nodeIn.Working>>
            names == <<"meat production", "milk/dairy production",
                       "wool/fiber production", "egg production",
                       "working/draft animal">>
            active == {i \in 1..5 : flags[i]}
            purpose == PartsOf(out, "Purpose")
            labels == <<"Breed", "Species", "Description", "Purpose">>
        IN  /\ out[1] = <<"Breed", <<nodeIn.Breed>>>>
            /\ PartsOf(out, "Species") =
                  (IF nodeIn.Species = "" THEN <<>>
                   ELSE <<<<"Species", <<nodeIn.Species>>>>>>)
            /\ PartsOf(out, "Description") =
                  (IF nodeIn.Breeddescription = "" THEN <<>>
                   ELSE <<<<"Description", <<nodeIn.Breeddescription>>>>>>)
            /\ active = {} <=> purpose = <<>>
            /\ active # {} =>
                  /\ Len(purpose) = 1
                  /\ Len(purpose[1][2]) = Cardinality(active)
                  /\ \A k \in 1..Len(purpose[1][2]) :
                        \E i \in active :
                            /\ purpose[1][2][k] = names[i]
                            /\ Cardinality({j \in active : j < i}) = k - 1
            /\ Len(out) = 1 + Len(PartsOf(out, "Species"))
                             + Len(PartsOf(out, "Description")) + Len(purpose)
            /\ \A i, j \in 1..Len(out) :
                  i < j => \E a, b \in 1..4 :
                              a < b /\ out[i][1] = labels[a] /\ out[j][1] = labels[b]

\* a breed with MeatBreed alone and no species or description
C28_Witness ==
    /\ nodeCall.node = "format_breed_document"
    /\ nodeIn.MeatBreed /\ ~nodeIn.MilkBreed /\ ~nodeIn.WoolBreed
    /\ ~nodeIn.EggBreed /\ ~nodeIn.Working
    /\ nodeIn.Species = ""
    /\ nodeCall.out = <<<<"Breed", <<"Angus">>>>, <<"Purpose", <<"meat production">>>>>>

(***************************************************************************)
(* Claims about the health and readiness endpoints, checked under          *)
(* SpecHealth.                                                             *)
(***************************************************************************)
\* the summary query of the last request succeeded
SummarySucceeded == dbCall.raised = ""

\* no request has reached the graph, the index, the search, the checkpointer
\* or the conversation store
ChatPathUntouched ==
    /\ RagQuiet
    /\ NodesQuiet
    /\ SearchQuiet
    /\ StoreQuiet
    /\ req = [r \in Reqs |-> IdleReq]
    /\ checkpoint = [t \in Threads |-> EmptyDict]
    /\ store = EmptyDict
    /\ turns = 0

\* what the endpoint functions return and raise, before the response is
\* encoded: healthy with the summary or unhealthy with the error, ready or
\* the 503 outcome, with no step outside the data source
EndpointsReturn ==
    /\ dbCall.op = "health" =>
          /\ dbCall.returned.version = "2.0.0"
          /\ dbCall.returned.status = "healthy" <=> SummarySucceeded
          /\ ~SummarySucceeded =>
                /\ dbCall.returned.status = "unhealthy"
                /\ dbCall.returned.error = dbCall.raised
                /\ dbCall.response = [code |-> 200, content |-> dbCall.returned]
    /\ dbCall.op = "ready" =>
          /\ dbCall.response.code \in {200, 503}
          /\ dbCall.response.code = 200 <=> SummarySucceeded
          /\ SummarySucceeded => dbCall.response.content.status = "ready"
    /\ ChatPathUntouched

\* C29: /health never fails and answers healthy with version 2.0.0 exactly
\* when the summary query succeeds, otherwise unhealthy with the error;
\* /ready answers ready exactly when it succeeds, otherwise 503; neither
\* touches the orchestrator, the model, the index or the conversation store.
C29_HealthAndReadiness ==
    /\ dbCall.op = "health" =>
          /\ dbCall.response.code = 200
          /\ dbCall.response.content.version = "2.0.0"
          /\ dbCall.response.content.status = "healthy" <=> SummarySucceeded
          /\ ~SummarySucceeded =>
                /\ dbCall.response.content.status = "unhealthy"
                /\ dbCall.response.content.error = dbCall.raised
    /\ dbCall.op = "ready" =>
          /\ dbCall.response.code \in {200, 503}
          /\ dbCall.response.code = 200 <=> SummarySucceeded
          /\ SummarySucceeded => dbCall.response.content.status = "ready"
    /\ ChatPathUntouched

(***************************************************************************)
(* Claims about get_user_threads, checked under SpecThreads.               *)
(***************************************************************************)
\* the index of the first user turn of a thread, 0 when it has none
FirstUserTurn(messages) ==
    IF \E i \in 1..Len(messages) : messages[i].role = "user"
    THEN CHOOSE i \in 1..Len(messages) :
             /\ messages[i].role = "user"
             /\ \A j \in 1..(i - 1) : messages[j].role # "user"
    ELSE 0

\* the first 100 characters of a content
First100(content) == [i \in 1..Min(Len(content), 100) |-> content[i]]

\* the preview is the first 100 characters of the first user turn's content
PreviewOfFirstUserTurn(messages, preview) ==
    FirstUserTurn(messages) # 0 =>
        preview = First100(messages[FirstUserTurn(messages)].content)

\* the same, and the first message's content stands in when the thread has
\* no user turn or its first user turn is empty
PreviewWithFallback(messages, preview) ==
    LET i == FirstUserTurn(messages)
    IN  IF i # 0 /\ messages[i].content # <<>>
        THEN preview = First100(messages[i].content)
        ELSE IF messages # <<>> THEN preview = First100(messages[1].content)
        ELSE preview = <<>>

\* the last call listed the threads of a user: everything the listing
\* promises but the preview, which Shows(messages, preview) states
ListsThreads(Shows(_, _)) ==
    storeCall.op = "list" =>
        LET docs == storeCall.before
            got == storeCall.got
            mine == {k \in DOMAIN docs : docs[k].user_id = storeCall.user}
            Of(i) == {k \in mine : /\ docs[k].thread_id = got[i].thread_id
                                   /\ docs[k].updated_at = got[i].updated_at}
        IN  /\ store = docs
            /\ ~storeCall.answered => got = <<>>
            /\ storeCall.answered =>
                  /\ Len(got) = Min(storeCall.limit, Cardinality(mine))
                  /\ \A i \in 1..Len(got) :
                        /\ DOMAIN got[i] = {"thread_id", "message_count", "created_at",
                                            "updated_at", "preview"}
                        /\ \E k \in Of(i) :
                              /\ got[i].message_count = Len(docs[k].messages)
                              /\ Shows(docs[k].messages, got[i].preview)
                  /\ \A i, j \in 1..Len(got) :
                        i < j => /\ got[i].updated_at >= got[j].updated_at
                                 /\ Of(i) # Of(j)
                  /\ \A k \in mine, i \in 1..Len(got) :
                        (\A j \in 1..Len(got) : k \notin Of(j)) =>
                            docs[k].updated_at <= got[i].updated_at

\* C30 as stated: get_user_threads returns only the user's threads, at most
\* limit of them, latest update first, each with its thread_id,
\* message_count and the first 100 characters of its first user turn as
\* preview; the empty list when the user has no thread or the query fails;
\* and it leaves the store as it was.
C30_UserThreads == ListsThreads(PreviewOfFirstUserTurn)

\* C30, amended: the same listing, where the preview is the first 100
\* characters of the first user turn's content or, when the thread has no
\* user turn or that content is empty, of the first message's content.
C30_UserThreadsFirstMessageFallback == ListsThreads(PreviewWithFallback)

\* a listing cut to one of two threads of the user, the later one, whose
\* preview is 100 of the 101 characters of its first user turn
C30_Witness ==
    /\ storeCall.op = "list"
    /\ storeCall.answered
    /\ storeCall.limit = 1
    /\ Cardinality({k \in DOMAIN store : store[k].user_id = storeCall.user}) = 2
    /\ Len(storeCall.got) = 1
    /\ storeCall.got[1].updated_at = 2
    /\ Len(storeCall.got[1].preview) = 100
    /\ storeCall.got[1].message_count = 2

Done(c) == caller[c].pc \in {"returned", "failed"}

BothDone == \A c \in Callers : Done(c)

Savers == {c \in Callers : caller[c].op = "save"}

NoneRaised == \A c \in Callers : caller[c].raised = ""

\* the thread is absent, or holds the whole turn sequence of one save with
\* its count and the fields of a created thread
AbsentOrOneSave ==
    \/ SharedId \notin DOMAIN store
    \/ /\ {"user_id", "thread_id", "created_at"} \subseteq DOMAIN store[SharedId]
       /\ \E c \in Savers :
             /\ store[SharedId].messages = timestamped(caller[c].given, caller[c].now)
             /\ store[SharedId].message_count = Len(caller[c].given)

\* C39: when a save_messages on a thread runs together with a delete_thread
\* or another save_messages on it, both calls end without an error and the
\* thread is left absent or holding exactly one caller's full turn sequence
\* with its message_count, user_id, thread_id and created_at.
C39_SharedSaveEndsWell ==
    (BothDone /\ Savers # {}) => (NoneRaised /\ AbsentOrOneSave)

\* what holds: whatever the interleaving, the thread is left absent or as
\* one save wrote it, and two saves never raise
SharedSaveLeavesWholeThread ==
    (BothDone /\ Savers # {}) =>
        /\ AbsentOrOneSave
        /\ Savers = Callers => NoneRaised

\* C40: when two delete_thread calls run together on a thread that exists,
\* exactly one of them returns true and the thread is absent afterwards.
C40_OneDeleteReturnsTrue ==
    (/\ BothDone
     /\ \A c \in Callers : caller[c].op = "delete"
     /\ \E c \in Callers : caller[c].exists) =>
        /\ Cardinality({c \in Callers : caller[c].result}) = 1
        /\ SharedId \notin DOMAIN store

\* what holds: the thread is absent and at least one call returned true
SharedDeleteRemovesThread ==
    (/\ BothDone
     /\ \A c \in Callers : caller[c].op = "delete"
     /\ \E c \in Callers : caller[c].exists) =>
        /\ \E c \in Callers : caller[c].result
        /\ SharedId \notin DOMAIN store

====
